---------------------------- MODULE Spec2Model ----------------------------
(***************************************************************************)
(* StreamV9: the file-backed catalog store.                                *)
(*                                                                         *)
(* The module models src/src/utils/fs.ts (atomic writer, file lock),       *)
(* src/src/services/catalogService.ts (movies, series, merge engine) and   *)
(* the validation schemas of src/src/types/catalog.ts.                     *)
(*                                                                         *)
(* Every asynchronous function is cut at its file-system calls: one action *)
(* is one such call together with the synchronous code that follows it up  *)
(* to the next call.  Callers (requests of one server, or of several       *)
(* servers sharing the data directory) interleave at those points.         *)
(***************************************************************************)
EXTENDS Integers, Sequences, FiniteSets, TLC

VARIABLES
  fs,        \* the directory: file name -> content (DOMAIN fs = existing files)
  fds,       \* caller -> the file its open write descriptor refers to
  lock,      \* path -> holder of the lock directory `${path}.lock`
  clock,     \* Date.now() / dayjs()
  pc,        \* caller -> position in the running call
  call,      \* caller -> the call it runs (operation and arguments)
  attempts,  \* caller -> acquisition attempts made by lockfile.lock
  inCs,      \* caller -> TRUE while the fn passed to withFileLock runs
  local,     \* caller -> local variables of the running call
  result,    \* caller -> what the finished call gave its caller
  ran,       \* caller -> number of critical sections it has entered
  released,  \* caller -> number of times it has released a lock
  nextId,    \* number of identifiers randomUUID() has handed out
  opCount,   \* number of calls started
  seed,      \* the stored document the run started from (<<>>: no file)
  rateMap,   \* adminRateLimiter's map: key -> its count and expiresAt
  handled    \* <<username, time>> -> requests passed on to the handler then

vars == <<fs, fds, lock, clock, pc, call, attempts, inCs, local, result,
          ran, released, nextId, opCount, seed, rateMap, handled>>

-----------------------------------------------------------------------------
(* Bounds of the model *)

\* number of calls explored in a run of the sequential specifications
MaxOps == 2
\* last value of the clock
MaxTime == 2

\* callers; Pid gives the operating-system process each one runs in
Procs == {"a", "b", "c"}
Pid(p) == IF p = "c" THEN 2 ELSE 1

NoProc == "none"

-----------------------------------------------------------------------------
(* withFileLock: src/src/utils/fs.ts 39-54 *)

\* retries.retries of the lockfile.lock options
retries == 5

LockPaths == {"movies.json", "echoes", "ann"}

\* a lock that refuses nobody, to compare with
LockFreeAlways(path) == TRUE
\* lockfile.lock creates the directory `${path}.lock`: it succeeds iff absent
LockFree(path) == lock[path] = NoProc

\* a policy of one retry more, to compare with
mayRetryOnceMore(made) == made <= retries + 1
\* the retry policy: another attempt is made while fewer than `retries`
\* retries were used (`made` counts the attempts made, the first included)
mayRetry(made) == made <= retries

\* a release after `return await fn()` and no finally block, to compare with
releasesOnReturnOnly(outcome) == outcome.status = "ok"
\* try { return await fn() } finally { await release() }: the release runs
\* whatever the outcome of fn
releasesLock(outcome) == outcome.status \in {"ok", "error"}

Ok(v) == [status |-> "ok", value |-> v]
Err(e) == [status |-> "error", value |-> e]
Pending == [status |-> "pending", value |-> "none"]

-----------------------------------------------------------------------------
(* The file system *)

\* a file name: the file at `path`, or a temporary sibling of it
Real(path) == <<path, -1, 0>>
NoFd == <<"none", -1, 0>>
Orphan == <<"unlinked", -1, 0>>

\* content of a file: zero bytes (just created or truncated), or a document
Empty == [kind |-> "empty"]
Json(doc) == [kind |-> "json", doc |-> doc]

existsSync(name) == name \in DOMAIN fs

Put(dir, name, content) ==
  [n \in DOMAIN dir \cup {name} |-> IF n = name THEN content ELSE dir[n]]

\* rename(from, to): `to` now names the file `from` named; descriptors follow
\* the file they were opened on, not its name
Renamed(dir, from, to) ==
  [n \in (DOMAIN dir \cup {to}) \ {from} |-> IF n = to THEN dir[from] ELSE dir[n]]
RenamedFds(from, to) ==
  [q \in Procs |-> IF fds[q] = from THEN to
                   ELSE IF fds[q] = to THEN Orphan
                   ELSE fds[q]]

-----------------------------------------------------------------------------
(* Locals of a running call *)

NoDoc == [kind |-> "none"]
NoLocal ==
  [pending |-> Pending,   \* outcome of the fn passed to withFileLock
   phase   |-> "none",    \* "load": the list/read half, "save": the save half
   wdata   |-> NoDoc,     \* writeJsonFile: data
   wtmp    |-> NoFd,      \* writeJsonFile: tmpPath
   wret    |-> "none",    \* writeJsonFile: where its caller continues
   snap    |-> NoDoc,     \* what the load half returned
   next    |-> NoDoc,     \* what the save half is to write
   ret     |-> "none"]    \* what the call returns once saved
NoCall == [op |-> "none", path |-> "none"]

\* where a call goes once the lock is held: the first step of its fn
CsEntry(c, phase) ==
  IF c.op = "section" THEN "cs"
  ELSE IF phase = "load" THEN "read"
  ELSE "wopen"

\* locals on entry of fn: the fn of a save half calls writeJsonFile(path, next)
CsLocal(l) ==
  IF l.phase = "save" THEN [l EXCEPT !.wdata = l.next, !.wret = "release"] ELSE l

-----------------------------------------------------------------------------
(* Values *)

\* {...a, ...b}: the keys of both, b's value where both have the key
Spread(a, b) ==
  [k \in DOMAIN a \cup DOMAIN b |-> IF k \in DOMAIN b THEN b[k] ELSE a[k]]

Has(obj, k) == k \in DOMAIN obj

\* array.sort(cmp) is stable: the element at i goes behind every element
\* with a smaller key and every earlier element with the same key
StableSort(seq, keys) ==
  LET n == Len(seq)
      pos(i) == 1 + Cardinality({j \in 1..n :
                   keys[j] < keys[i] \/ (keys[j] = keys[i] /\ j < i)})
  IN  [k \in 1..n |-> seq[CHOOSE i \in 1..n : pos(i) = k]]

\* array.filter(keep)
RECURSIVE Filter(_, _)
Filter(seq, keep) ==
  IF seq = <<>> THEN <<>>
  ELSE IF Head(seq) \in keep THEN <<Head(seq)>> \o Filter(Tail(seq), keep)
  ELSE Filter(Tail(seq), keep)

\* array.findIndex(pred): the first index among `hits`, 0 for -1
FindIndex(hits) == IF hits = {} THEN 0 ELSE CHOOSE i \in hits : \A j \in hits : i <= j

\* sanitize(value): DOMPurify drops every tag, then trim()
sanitize(str) ==
  CASE str = " " -> ""
    [] str = "<b></b>" -> ""
    [] str = " Pilot" -> "Pilot"
    [] OTHER -> str

\* the slug pattern /^[a-z0-9-]+$/ on the strings of the model
SlugOk(str) == str \in {"alpha", "beta", "echoes", "atlas"}

\* String.localeCompare on the strings of the model, as a rank
Rank(str) ==
  CASE str = "" -> 0
    [] str = "Alpha" -> 1
    [] str = "Beta" -> 2
    [] str = "Echoes" -> 3
    [] str = "Pilot" -> 4
    [] str = "Pilot Extended" -> 5
    [] OTHER -> 6

\* randomUUID(): the n-th identifier handed out
Uuid(n) == n
\* z.string().uuid()
UuidOk(id) == id >= 1

\* z.array(schema).parse(list), given the outcome of schema.parse per element
AllOk(parsed) ==
  IF \A i \in DOMAIN parsed : parsed[i].status = "ok"
  THEN Ok([i \in DOMAIN parsed |-> parsed[i].value])
  ELSE Err("ZodError")

-----------------------------------------------------------------------------
(* Movies: src/src/types/catalog.ts 83-110, catalogService.ts 81-142 *)

\* the movies file; of the stored { movies: [...] } the model keeps the list
MOVIES_FILE == "movies.json"

MovieKeys == {"id", "title", "slug", "views", "createdAt", "updatedAt"}

\* movieSchema.parse(obj): checks, then defaults and transforms; keys the
\* schema does not name are dropped
movieSchema(obj) ==
  LET o == IF Has(obj, "views") THEN obj ELSE Spread(obj, [views |-> 0])
  IN  IF /\ MovieKeys \subseteq DOMAIN o
         /\ UuidOk(o.id)
         /\ o.title # ""
         /\ o.slug # "" /\ SlugOk(o.slug)
         /\ o.views >= 0
      THEN Ok([id |-> o.id, title |-> sanitize(o.title), slug |-> sanitize(o.slug),
               views |-> o.views, createdAt |-> o.createdAt, updatedAt |-> o.updatedAt])
      ELSE Err("ZodError")

\* movieSchema.array().parse(list)
movieSchemaArray(list) == AllOk([i \in 1..Len(list) |-> movieSchema(list[i])])

\* movies.sort((a, b) => a.title.localeCompare(b.title))
sortMovies(movies) == StableSort(movies, [i \in 1..Len(movies) |-> Rank(movies[i].title)])

Throw(e) == [kind |-> "throw", value |-> e, next |-> NoDoc]
Return(v) == [kind |-> "return", value |-> v, next |-> NoDoc]
Save(doc, v) == [kind |-> "save", value |-> v, next |-> doc]

\* createMovie after listMovies: lines 106-111
createMovie(movies, movie) ==
  IF \E i \in 1..Len(movies) : movies[i].slug = movie.slug
  THEN Throw("Movie slug already exists")
  ELSE Save(sortMovies(Append(movies, movie)), "created")

\* updateMovie after listMovies: lines 117-124
updateMovie(movies, id, update, now) ==
  LET index == FindIndex({i \in 1..Len(movies) : movies[i].id = id})
      updated == movieSchema(Spread(Spread(movies[index], update), [updatedAt |-> now]))
  IN  IF index = 0 THEN Throw("Movie not found")
      ELSE IF updated.status = "error" THEN Throw("ZodError")
      ELSE Save([movies EXCEPT ![index] = updated.value], "updated")

\* deleteMovie after listMovies: lines 129-130
deleteMovie(movies, id) ==
  Save(Filter(movies, {m \in {movies[i] : i \in 1..Len(movies)} : m.id # id}), "deleted")

\* to compare with: a view count that fails with NotFound on an id no movie has
incrementMovieViewOrThrow(movies, id, now) ==
  LET index == FindIndex({i \in 1..Len(movies) : movies[i].id = id})
  IN  IF index = 0 THEN Throw("Movie not found")
      ELSE Save([movies EXCEPT ![index].views = @ + 1, ![index].updatedAt = now],
                "incremented")

\* incrementMovieView after listMovies: lines 135-141
incrementMovieView(movies, id, now) ==
  LET index == FindIndex({i \in 1..Len(movies) : movies[i].id = id})
  IN  IF index = 0 THEN Return("absent")
      ELSE Save([movies EXCEPT ![index].views = @ + 1, ![index].updatedAt = now],
                "incremented")

-----------------------------------------------------------------------------
(* Series: src/src/types/catalog.ts 112-154, catalogService.ts 164-347 *)
(* Of the fields of one kind the model keeps one: title stands for the      *)
(* sanitized required strings, duration for the checked required numbers,   *)
(* published for the fields with a default.                                 *)

EpisodeKeys == {"id", "title", "season", "episode", "duration", "published",
                "views", "lastUpdated"}
EpisodeRequired == {"id", "title", "season", "episode", "duration", "lastUpdated"}
EpisodeDefaults == [published |-> FALSE, views |-> 0]

\* episodeSchema.parse(obj)
episodeSchema(obj) ==
  LET o == Spread(EpisodeDefaults, obj)
  IN  IF /\ EpisodeRequired \subseteq DOMAIN obj
         /\ UuidOk(o.id)
         /\ o.title # ""
         /\ o.season >= 1 /\ o.episode >= 1
         /\ o.duration > 0
         /\ o.views >= 0
      THEN Ok([k \in EpisodeKeys |-> IF k = "title" THEN sanitize(o.title) ELSE o[k]])
      ELSE Err("ZodError")

\* z.array(episodeSchema).parse(list)
episodeSchemaArray(list) == AllOk([i \in 1..Len(list) |-> episodeSchema(list[i])])

\* the season seasonSchema gives, its episodes parsed
SeasonOf(n, episodes) ==
  IF episodes.status = "error" THEN episodes
  ELSE Ok([season |-> n, episodes |-> episodes.value])

\* seasonSchema.parse(obj)
seasonSchema(obj) ==
  IF {"season", "episodes"} \subseteq DOMAIN obj /\ obj.season >= 1
  THEN SeasonOf(obj.season, episodeSchemaArray(obj.episodes))
  ELSE Err("ZodError")

\* z.array(seasonSchema).parse(list)
seasonSchemaArray(list) == AllOk([i \in 1..Len(list) |-> seasonSchema(list[i])])

SeriesKeys == {"id", "name", "slug", "seasons", "published", "createdAt", "updatedAt"}
SeriesRequired == {"id", "name", "slug", "seasons", "createdAt", "updatedAt"}
SeriesDefaults == [published |-> FALSE]

\* the series seriesSchema gives, its seasons parsed
SeriesOf(o, seasons) ==
  IF seasons.status = "error" THEN seasons
  ELSE Ok([k \in SeriesKeys |->
             CASE k = "name" -> sanitize(o.name)
               [] k = "slug" -> sanitize(o.slug)
               [] k = "seasons" -> seasons.value
               [] OTHER -> o[k]])

\* seriesSchema.parse(obj)
seriesSchema(obj) ==
  IF /\ SeriesRequired \subseteq DOMAIN obj
     /\ UuidOk(obj.id)
     /\ obj.name # ""
     /\ obj.slug # "" /\ SlugOk(obj.slug)
  THEN SeriesOf(Spread(SeriesDefaults, obj), seasonSchemaArray(obj.seasons))
  ELSE Err("ZodError")

\* slugify(str, { lower: true, strict: true }) on the strings of the model
slugify(str) ==
  CASE str = "Echoes" -> "echoes"
    [] str = "Atlas" -> "atlas"
    [] OTHER -> str

\* join(SERIES_ROOT, `${slug}.json`): the model names a series file by its slug
seriesPath(slug) == slug

\* a Map filled from a list: for each key the last element that has it
MapOf(list, key) ==
  [k \in {list[i][key] : i \in 1..Len(list)} |->
     list[CHOOSE i \in 1..Len(list) :
            /\ list[i][key] = k
            /\ \A j \in 1..Len(list) : list[j][key] = k => j <= i]]

\* Array.from(map.values()).sort((a, b) => a.key - b.key)
SortedValues(map) ==
  LET ks == DOMAIN map
      nth(i) == CHOOSE k \in ks : Cardinality({j \in ks : j < k}) = i - 1
  IN  [i \in 1..Cardinality(ks) |-> map[nth(i)]]

\* mergeSeasons, lines 329-339: one incoming episode of a season that exists
mergeOneEpisode(episodeMap, parsedEpisode, now) ==
  IF parsedEpisode.status = "error" THEN parsedEpisode
  ELSE LET incomingEpisode == parsedEpisode.value
           n == incomingEpisode.episode
       IN  Ok(Put(episodeMap, n,
                  IF n \notin DOMAIN episodeMap THEN incomingEpisode
                  ELSE Spread(Spread(episodeMap[n], incomingEpisode),
                              [lastUpdated |-> now])))

\* mergeSeasons, lines 328-340: the loop over the incoming episodes
RECURSIVE mergeEpisodes(_, _, _)
mergeEpisodes(episodeMap, incoming, now) ==
  IF incoming = <<>> \/ episodeMap.status = "error" THEN episodeMap
  ELSE mergeEpisodes(mergeOneEpisode(episodeMap.value, episodeSchema(Head(incoming)), now),
                     Tail(incoming), now)

\* mergeSeasons, lines 341-342: the merged episodes go back into the season
withEpisodes(seasonMap, n, episodeMap) ==
  IF episodeMap.status = "error" THEN episodeMap
  ELSE Ok(Put(seasonMap, n,
              [seasonMap[n] EXCEPT !.episodes = SortedValues(episodeMap.value)]))

\* mergeSeasons, lines 319-343: one incoming season
mergeOneSeason(seasonMap, sanitizedSeason, now) ==
  IF sanitizedSeason.status = "error" THEN sanitizedSeason
  ELSE LET incoming == sanitizedSeason.value
           n == incoming.season
       IN  IF n \notin DOMAIN seasonMap
           THEN Ok(Put(seasonMap, n, incoming))
           ELSE withEpisodes(seasonMap, n,
                             mergeEpisodes(Ok(MapOf(seasonMap[n].episodes, "episode")),
                                           incoming.episodes, now))

\* mergeSeasons, lines 318-344: the loop over the incoming seasons
RECURSIVE mergeIncoming(_, _, _)
mergeIncoming(seasonMap, incoming, now) ==
  IF incoming = <<>> \/ seasonMap.status = "error" THEN seasonMap
  ELSE mergeIncoming(mergeOneSeason(seasonMap.value, seasonSchema(Head(incoming)), now),
                     Tail(incoming), now)

\* mergeSeasons, line 346
sortedSeasons(seasonMap) ==
  IF seasonMap.status = "error" THEN seasonMap ELSE Ok(SortedValues(seasonMap.value))

\* mergeSeasons(existingSeasons, incomingSeasons): lines 307-347
mergeSeasons(existingSeasons, incomingSeasons, now) ==
  sortedSeasons(mergeIncoming(Ok(MapOf(existingSeasons, "season")), incomingSeasons, now))

\* seasons.sort((a, b) => a.season - b.season), episodes.sort(...)
sortSeasons(seasons) == StableSort(seasons, [i \in 1..Len(seasons) |-> seasons[i].season])
sortEpisodes(episodes) == StableSort(episodes, [i \in 1..Len(episodes) |-> episodes[i].episode])

\* payload.slug || payload.name, slugified: line 188
payloadSlug(payload) ==
  slugify(IF Has(payload, "slug") /\ payload.slug # "" THEN payload.slug ELSE payload.name)

\* saveSeries(schema.parse(obj)), given the outcome of the parse
SaveParsed(parsed, v) ==
  IF parsed.status = "error" THEN Throw("ZodError") ELSE Save(parsed.value, v)

\* createOrMergeSeries, lines 195-202, given the outcome of mergeSeasons
mergedSeries(existing, payload, now, mergedSeasons) ==
  IF mergedSeasons.status = "error" THEN Throw("ZodError")
  ELSE SaveParsed(seriesSchema(Spread(Spread(existing, payload),
                                      [slug |-> payloadSlug(payload), id |-> existing.id,
                                       seasons |-> mergedSeasons.value,
                                       updatedAt |-> now])),
                  "merged")

\* createOrMergeSeries after readSeriesFile: lines 192-213; `existing` is
\* NoDoc for null, `now` is line 186, `later` the dayjs() of mergeSeasons
createOrMergeSeries(existing, payload, now, later, uuid) ==
  IF existing # NoDoc
  THEN mergedSeries(existing, payload, now,
                    mergeSeasons(existing.seasons, payload.seasons, later))
  ELSE SaveParsed(seriesSchema(Spread(payload,
                                 [id |-> IF Has(payload, "id") THEN payload.id ELSE uuid,
                                  slug |-> payloadSlug(payload),
                                  createdAt |-> now, updatedAt |-> now])),
                  "created")

\* updateSeries after readSeriesFile: lines 219-229
updateSeries(existing, slug, update, now) ==
  IF existing = NoDoc THEN Throw("Series not found")
  ELSE SaveParsed(seriesSchema(Spread(Spread(existing, update),
                                      [slug |-> slug, updatedAt |-> now])),
                  "updated")

\* the record mergeEpisode stores for an episode that exists: lines 278-282
mergedEpisode(stored, episodePayload, now) ==
  episodeSchema(Spread(Spread(stored, episodePayload), [lastUpdated |-> now]))

\* a record in which the payload's own id, lastUpdated and views win, to
\* compare with
insertedEpisodeAsGiven(episodePayload, now, uuid) ==
  episodeSchema(Spread([id |-> uuid, lastUpdated |-> now, views |-> 0], episodePayload))
\* the record mergeEpisode stores for a new episode: lines 256-261, 270-275
insertedEpisode(episodePayload, now, uuid) ==
  episodeSchema(Spread(episodePayload, [id |-> uuid, lastUpdated |-> now, views |-> 0]))

\* mergeEpisode, lines 286-288: sort the seasons, stamp the series, save
savedSeasons(existing, seasons, now) ==
  Save([existing EXCEPT !.seasons = sortSeasons(seasons), !.updatedAt = now], "merged")

\* mergeEpisode, lines 252-264: the parsed season is pushed
pushParsed(existing, season, now) ==
  IF season.status = "error" THEN Throw("ZodError")
  ELSE savedSeasons(existing, Append(existing.seasons, season.value), now)

\* mergeEpisode, lines 252-264: a season of its own for the new episode
pushSeason(existing, n, episode, now) ==
  IF episode.status = "error" THEN Throw("ZodError")
  ELSE pushParsed(existing, seasonSchema([season |-> n, episodes |-> <<episode.value>>]),
                  now)

\* mergeEpisode, lines 269-276 and 278-284: the episode is pushed or put in
\* place, and the episodes of the season sorted
putEpisode(existing, seasonIndex, episodeIndex, episode, now) ==
  IF episode.status = "error" THEN Throw("ZodError")
  ELSE LET episodes == existing.seasons[seasonIndex].episodes
       IN  savedSeasons(existing,
             [existing.seasons EXCEPT ![seasonIndex].episodes =
                sortEpisodes(IF episodeIndex = 0 THEN Append(episodes, episode.value)
                             ELSE [episodes EXCEPT ![episodeIndex] = episode.value])],
             now)

\* mergeEpisode, lines 266-267: the episode is looked up in its season
inSeason(existing, seasonIndex, episodePayload, now, uuid, episodeIndex) ==
  putEpisode(existing, seasonIndex, episodeIndex,
             IF episodeIndex = 0 THEN insertedEpisode(episodePayload, now, uuid)
             ELSE mergedEpisode(existing.seasons[seasonIndex].episodes[episodeIndex],
                                episodePayload, now),
             now)

\* mergeEpisode, line 250: the season is looked up
atSeason(existing, episodePayload, now, uuid, seasonIndex) ==
  IF seasonIndex = 0
  THEN pushSeason(existing, episodePayload.season,
                  insertedEpisode(episodePayload, now, uuid), now)
  ELSE inSeason(existing, seasonIndex, episodePayload, now, uuid,
                FindIndex({i \in 1..Len(existing.seasons[seasonIndex].episodes) :
                             existing.seasons[seasonIndex].episodes[i].episode
                               = episodePayload.episode}))

\* mergeEpisode after readSeriesFile: lines 246-289
mergeEpisode(existing, episodePayload, now, uuid) ==
  IF existing = NoDoc THEN Throw("Series not found")
  ELSE atSeason(existing, episodePayload, now, uuid,
                FindIndex({i \in 1..Len(existing.seasons) :
                             existing.seasons[i].season = episodePayload.season}))

\* incrementSeriesView after readSeriesFile: lines 294-304
incrementSeriesView(series, season, episodeNumber, now) ==
  IF series = NoDoc THEN Return("absent")
  ELSE
  LET seasons == series.seasons
      si == FindIndex({i \in 1..Len(seasons) : seasons[i].season = season})
      ei == IF si = 0 THEN 0
            ELSE FindIndex({i \in 1..Len(seasons[si].episodes) :
                              seasons[si].episodes[i].episode = episodeNumber})
  IN  IF ei = 0 THEN Return("absent")
      ELSE Save([series EXCEPT !.seasons[si].episodes[ei].views = @ + 1,
                               !.seasons[si].episodes[ei].lastUpdated = now],
                "incremented")

-----------------------------------------------------------------------------
(* The two halves of a call on a stored document *)

\* what the code after the load half does with the loaded value
Decide(c, snap, now) ==
  CASE c.op = "createMovie" -> createMovie(snap, c.movie)
    [] c.op = "updateMovie" -> updateMovie(snap, c.id, c.update, now)
    [] c.op = "deleteMovie" -> deleteMovie(snap, c.id)
    [] c.op = "incrementMovieView" -> incrementMovieView(snap, c.id, now)
    [] c.op = "createOrMergeSeries" ->
         createOrMergeSeries(snap, c.payload, c.now, now, c.uuid)
    [] c.op = "updateSeries" -> updateSeries(snap, c.slug, c.update, now)
    [] c.op = "mergeEpisode" -> mergeEpisode(snap, c.payload, now, c.uuid)
    [] c.op = "incrementSeriesView" ->
         incrementSeriesView(snap, c.season, c.episode, now)
    [] c.op = "appendHistory" -> Return("appended")

\* saveMovies starts with ensureJsonFile; saveSeries goes straight to the lock
SaveEntry(c) == IF c.path = MOVIES_FILE THEN "ensure" ELSE "lock"

\* the defaultValue the call passes to ensureJsonFile and readJsonFile
DefaultDoc(c) == <<>>

\* the load half returned `snap`: decide, then throw, return or start saving
AfterLoad(p, l, snap) ==
  LET d == Decide(call[p], snap, clock)
  IN  CASE d.kind = "throw" -> [pc |-> "done", local |-> l, result |-> Err(d.value)]
        [] d.kind = "return" -> [pc |-> "done", local |-> l, result |-> Ok(d.value)]
        [] d.kind = "save" ->
             [pc |-> SaveEntry(call[p]),
              local |-> [l EXCEPT !.phase = "save", !.next = d.next, !.ret = d.value,
                                  !.pending = Pending, !.snap = snap],
              result |-> result[p]]

\* withFileLock has returned or thrown `outcome`
AfterLock(p, outcome) ==
  IF call[p].op = "section" \/ outcome.status = "error"
  THEN [pc |-> "done", local |-> local[p], result |-> outcome]
  ELSE IF local[p].phase = "load"
  THEN AfterLoad(p, local[p], outcome.value)
  ELSE [pc |-> "done", local |-> local[p], result |-> Ok(local[p].ret)]

-----------------------------------------------------------------------------
(* writeJsonFile, readJsonFile, ensureJsonFile: src/src/utils/fs.ts 12-37 *)

\* `${path}.tmp-${Date.now()}-${process.pid}`
tmpPath(path, now, pid) == <<path, now, pid>>

\* an error thrown at caller p: inside fn it passes through the finally
\* block of withFileLock, outside it ends the call
Thrown(p, e) ==
  IF inCs[p]
  THEN /\ local' = [local EXCEPT ![p].pending = Err(e)]
       /\ inCs' = [inCs EXCEPT ![p] = FALSE]
       /\ pc' = [pc EXCEPT ![p] = "release"]
       /\ UNCHANGED result
  ELSE /\ pc' = [pc EXCEPT ![p] = "done"]
       /\ result' = [result EXCEPT ![p] = Err(e)]
       /\ UNCHANGED <<local, inCs>>

\* writeFile(tmpPath, ...) opens the file with flag 'w': created, or truncated
writeJsonFile_open(p) ==
  /\ pc[p] = "wopen"
  /\ LET tmp == tmpPath(call[p].path, clock, Pid(p))
     IN  /\ fs' = Put(fs, tmp, Empty)
         /\ fds' = [fds EXCEPT ![p] = tmp]
         /\ local' = [local EXCEPT ![p].wtmp = tmp]
  /\ pc' = [pc EXCEPT ![p] = "wwrite"]
  /\ UNCHANGED <<lock, clock, call, attempts, inCs, result, ran, released, nextId, opCount, seed, rateMap, handled>>

\* writeFile writes JSON.stringify(data) through its descriptor and closes it
writeJsonFile_write(p) ==
  /\ pc[p] = "wwrite"
  /\ fs' = IF existsSync(fds[p]) THEN Put(fs, fds[p], Json(local[p].wdata)) ELSE fs
  /\ fds' = [fds EXCEPT ![p] = NoFd]
  /\ pc' = [pc EXCEPT ![p] = "wrename"]
  /\ UNCHANGED <<lock, clock, call, attempts, inCs, local, result, ran, released, nextId, opCount, seed, rateMap, handled>>

\* rename(tmpPath, path); ENOENT when tmpPath is gone
writeJsonFile_rename(p) ==
  /\ pc[p] = "wrename"
  /\ LET tmp == local[p].wtmp
         to == Real(call[p].path)
     IN  IF existsSync(tmp)
         THEN /\ fs' = Renamed(fs, tmp, to)
              /\ fds' = RenamedFds(tmp, to)
              /\ CASE local[p].wret = "lock" ->
                        /\ pc' = [pc EXCEPT ![p] = "lock"]
                        /\ UNCHANGED <<local, inCs, result>>
                   [] local[p].wret = "release" ->
                        /\ pc' = [pc EXCEPT ![p] = "release"]
                        /\ inCs' = [inCs EXCEPT ![p] = FALSE]
                        /\ local' = [local EXCEPT ![p].pending = Ok(local[p].snap)]
                        /\ UNCHANGED result
                   [] local[p].wret = "read" ->
                        /\ pc' = [pc EXCEPT ![p] = "read"]
                        /\ UNCHANGED <<local, inCs, result>>
                   [] local[p].wret = "done" ->
                        /\ pc' = [pc EXCEPT ![p] = "done"]
                        /\ result' = [result EXCEPT ![p] = Ok("written")]
                        /\ UNCHANGED <<local, inCs>>
         ELSE /\ Thrown(p, "ENOENT")
              /\ UNCHANGED <<fs, fds>>
  /\ UNCHANGED <<lock, clock, call, attempts, ran, released, nextId, opCount, seed, rateMap, handled>>

\* ensureJsonFile(path, defaultValue): writeJsonFile unless existsSync(path)
ensureJsonFile(p) ==
  /\ pc[p] = "ensure"
  /\ IF existsSync(Real(call[p].path))
     THEN /\ pc' = [pc EXCEPT ![p] = "lock"]
          /\ UNCHANGED local
     ELSE /\ pc' = [pc EXCEPT ![p] = "wopen"]
          /\ local' = [local EXCEPT ![p].wdata = DefaultDoc(call[p]), ![p].wret = "lock"]
  /\ UNCHANGED <<fs, fds, lock, clock, call, attempts, inCs, result, ran, released, nextId, opCount, seed, rateMap, handled>>

\* the fn of listMovies: readJsonFile(path, defaultValue), then the schema.
\* readFile gives ENOENT (the default is written and returned), text that
\* JSON.parse rejects, or a document
readJsonFile(p) ==
  /\ pc[p] = "read"
  /\ call[p].path = MOVIES_FILE
  /\ LET name == Real(call[p].path)
     IN  IF ~existsSync(name)
         THEN /\ pc' = [pc EXCEPT ![p] = "wopen"]
              /\ local' = [local EXCEPT ![p].wdata = DefaultDoc(call[p]),
                                        ![p].wret = "release",
                                        ![p].snap = DefaultDoc(call[p])]
              /\ UNCHANGED <<inCs, result>>
         ELSE IF fs[name].kind = "empty"
         THEN Thrown(p, "SyntaxError")
         ELSE LET parsed == movieSchemaArray(fs[name].doc)
              IN  IF parsed.status = "error"
                  THEN Thrown(p, "ZodError")
                  ELSE /\ pc' = [pc EXCEPT ![p] = "release"]
                       /\ inCs' = [inCs EXCEPT ![p] = FALSE]
                       /\ local' = [local EXCEPT ![p].pending = parsed]
                       /\ UNCHANGED result
  /\ UNCHANGED <<fs, fds, lock, clock, call, attempts, ran, released, nextId, opCount, seed, rateMap, handled>>

-----------------------------------------------------------------------------
(* withFileLock: the steps *)

\* one attempt of lockfile.lock (await ensureDir is a no-op: the data
\* directories exist)
withFileLock_lock(p) ==
  /\ pc[p] = "lock"
  /\ LET path == call[p].path
         made == attempts[p] + 1
     IN  /\ attempts' = [attempts EXCEPT ![p] = made]
         /\ IF LockFree(path)
            THEN /\ lock' = [lock EXCEPT ![path] = p]
                 /\ inCs' = [inCs EXCEPT ![p] = TRUE]
                 /\ ran' = [ran EXCEPT ![p] = @ + 1]
                 /\ pc' = [pc EXCEPT ![p] = CsEntry(call[p], local[p].phase)]
                 /\ local' = [local EXCEPT ![p] = CsLocal(@)]
                 /\ UNCHANGED result
            ELSE /\ UNCHANGED <<lock, inCs, ran, local>>
                 /\ IF mayRetry(made)
                    THEN UNCHANGED <<pc, result>>
                    ELSE /\ pc' = [pc EXCEPT ![p] = "done"]
                         /\ result' = [result EXCEPT ![p] = Err("ELOCKED")]
  /\ UNCHANGED <<fs, fds, clock, call, released, nextId, opCount, seed, rateMap, handled>>

\* the finally block: release(), then the value or the error of fn goes to
\* the caller of withFileLock, which continues (AfterLock)
withFileLock_release(p) ==
  /\ pc[p] = "release"
  /\ LET outcome == local[p].pending
         k == AfterLock(p, outcome)
     IN  /\ IF releasesLock(outcome)
            THEN /\ lock' = [lock EXCEPT ![call[p].path] = NoProc]
                 /\ released' = [released EXCEPT ![p] = @ + 1]
            ELSE UNCHANGED <<lock, released>>
         /\ pc' = [pc EXCEPT ![p] = k.pc]
         /\ local' = [local EXCEPT ![p] = k.local]
         /\ result' = [result EXCEPT ![p] = k.result]
         /\ attempts' = [attempts EXCEPT ![p] = IF k.pc = "done" THEN @ ELSE 0]
  /\ UNCHANGED <<fs, fds, clock, call, inCs, ran, nextId, opCount, seed, rateMap, handled>>

-----------------------------------------------------------------------------
(* A caller of withFileLock with an arbitrary fn *)

\* withFileLock(path, fn) is called; fn will return or throw
Section_call(p) ==
  /\ pc[p] = "idle"
  /\ \E path \in LockPaths, behaviour \in {"return", "throw"} :
       call' = [call EXCEPT ![p] = [op |-> "section", path |-> path, fn |-> behaviour]]
  /\ pc' = [pc EXCEPT ![p] = "lock"]
  /\ opCount' = opCount + 1
  /\ UNCHANGED <<fs, fds, lock, clock, attempts, inCs, local, result, ran, released, nextId, seed, rateMap, handled>>

\* fn runs to its end: it rewrites the file, then returns or throws
Section_fn(p) ==
  /\ pc[p] = "cs"
  /\ call[p].op = "section"
  /\ fs' = Put(fs, Real(call[p].path), Json(<<p>>))
  /\ local' = [local EXCEPT ![p].pending =
                 IF call[p].fn = "return" THEN Ok(p) ELSE Err("fn threw")]
  /\ inCs' = [inCs EXCEPT ![p] = FALSE]
  /\ pc' = [pc EXCEPT ![p] = "release"]
  /\ UNCHANGED <<fds, lock, clock, call, attempts, result, ran, released, nextId, opCount, seed, rateMap, handled>>

InitCallers ==
  /\ fds = [p \in Procs |-> NoFd]
  /\ lock = [path \in LockPaths |-> NoProc]
  /\ pc = [p \in Procs |-> "idle"]
  /\ call = [p \in Procs |-> NoCall]
  /\ attempts = [p \in Procs |-> 0]
  /\ inCs = [p \in Procs |-> FALSE]
  /\ local = [p \in Procs |-> NoLocal]
  /\ result = [p \in Procs |-> Pending]
  /\ ran = [p \in Procs |-> 0]
  /\ released = [p \in Procs |-> 0]
  /\ opCount = 0
  /\ rateMap = <<>>
  /\ handled = <<>>

InitLock ==
  /\ InitCallers
  /\ fs = <<>>
  /\ seed = <<>>
  /\ clock = 0
  /\ nextId = 0

NextLock ==
  \E p \in Procs :
    \/ Section_call(p)
    \/ withFileLock_lock(p)
    \/ Section_fn(p)
    \/ withFileLock_release(p)

SpecLock == InitLock /\ [][NextLock]_vars

-----------------------------------------------------------------------------
(* Time *)

Tick ==
  /\ clock < MaxTime
  /\ clock' = clock + 1
  /\ UNCHANGED <<fs, fds, lock, pc, call, attempts, inCs, local, result,
                 ran, released, nextId, opCount, seed, rateMap, handled>>

-----------------------------------------------------------------------------
(* Concurrent writeJsonFile calls and readers of one path, no lock taken *)

WriteDocs == {<<"x">>, <<"y", "y">>}

writeJsonFile_call(p) ==
  /\ pc[p] = "idle"
  /\ \E data \in WriteDocs :
       /\ call' = [call EXCEPT ![p] = [op |-> "writeJsonFile", path |-> MOVIES_FILE,
                                       data |-> data]]
       /\ local' = [local EXCEPT ![p].wdata = data, ![p].wret = "done"]
  /\ pc' = [pc EXCEPT ![p] = "wopen"]
  /\ opCount' = opCount + 1
  /\ UNCHANGED <<fs, fds, lock, clock, attempts, inCs, result, ran, released, nextId, seed, rateMap, handled>>

\* a reader: readFile(path, 'utf-8')
readFile_call(p) ==
  /\ pc[p] = "idle"
  /\ call' = [call EXCEPT ![p] = [op |-> "readFile", path |-> MOVIES_FILE]]
  /\ result' = [result EXCEPT ![p] =
                  IF existsSync(Real(MOVIES_FILE)) THEN Ok(fs[Real(MOVIES_FILE)])
                  ELSE Err("ENOENT")]
  /\ pc' = [pc EXCEPT ![p] = "done"]
  /\ opCount' = opCount + 1
  /\ UNCHANGED <<fs, fds, lock, clock, attempts, inCs, local, ran, released, nextId, seed, rateMap, handled>>

\* writeFile or rename rejects with an error of the file system (no space,
\* no permission): writeFile leaves what it has written of tmpPath, rename
\* changes nothing
writeJsonFile_fails(p) ==
  /\ pc[p] \in {"wwrite", "wrename"}
  /\ fds' = [fds EXCEPT ![p] = NoFd]
  /\ Thrown(p, "EIO")
  /\ UNCHANGED <<fs, lock, clock, call, attempts, ran, released, nextId, opCount, seed, rateMap, handled>>

InitWrite ==
  /\ InitCallers
  /\ seed \in {<<>>, <<Json(<<>>)>>}
  /\ fs = IF seed = <<>> THEN <<>> ELSE Put(<<>>, Real(MOVIES_FILE), seed[1])
  /\ clock = 0
  /\ nextId = 0

NextWrite ==
  \/ Tick
  \/ \E p \in Procs :
       \/ writeJsonFile_call(p)
       \/ readFile_call(p)
       \/ writeJsonFile_open(p)
       \/ writeJsonFile_write(p)
       \/ writeJsonFile_rename(p)
       \/ writeJsonFile_fails(p)

SpecWrite == InitWrite /\ [][NextWrite]_vars

-----------------------------------------------------------------------------
(* Concurrent calls on the movies file *)

Movie1 == [id |-> Uuid(1), title |-> "Beta", slug |-> "beta", views |-> 0,
           createdAt |-> 0, updatedAt |-> 0]

MoviePayloads == {[title |-> "Alpha", slug |-> "alpha"], [title |-> "Beta", slug |-> "beta"]}
MovieUpdates == {[title |-> "Zulu"], [views |-> 0], [slug |-> "alpha"]}
MovieIds == {Uuid(1), Uuid(2)}

\* the call reaches its listMovies(), which starts with ensureJsonFile
StartLoad(p, c) ==
  /\ call' = [call EXCEPT ![p] = c]
  /\ local' = [local EXCEPT ![p] = [NoLocal EXCEPT !.phase = "load"]]
  /\ pc' = [pc EXCEPT ![p] = "ensure"]
  /\ opCount' = opCount + 1

\* createMovie up to its listMovies(): lines 97-105
createMovie_call(p) ==
  /\ pc[p] = "idle"
  /\ \E payload \in MoviePayloads :
       LET movie == movieSchema(Spread(payload,
                      [id |-> Uuid(nextId + 1), createdAt |-> clock,
                       updatedAt |-> clock, views |-> 0]))
       IN  StartLoad(p, [op |-> "createMovie", path |-> MOVIES_FILE, movie |-> movie.value])
  /\ nextId' = nextId + 1
  /\ UNCHANGED <<fs, fds, lock, clock, attempts, inCs, result, ran, released, seed, rateMap, handled>>

updateMovie_call(p) ==
  /\ pc[p] = "idle"
  /\ \E id \in MovieIds, update \in MovieUpdates :
       StartLoad(p, [op |-> "updateMovie", path |-> MOVIES_FILE, id |-> id, update |-> update])
  /\ UNCHANGED <<fs, fds, lock, clock, attempts, inCs, result, ran, released, nextId, seed, rateMap, handled>>

deleteMovie_call(p) ==
  /\ pc[p] = "idle"
  /\ \E id \in MovieIds :
       StartLoad(p, [op |-> "deleteMovie", path |-> MOVIES_FILE, id |-> id])
  /\ UNCHANGED <<fs, fds, lock, clock, attempts, inCs, result, ran, released, nextId, seed, rateMap, handled>>

incrementMovieView_call(p) ==
  /\ pc[p] = "idle"
  /\ \E id \in MovieIds :
       StartLoad(p, [op |-> "incrementMovieView", path |-> MOVIES_FILE, id |-> id])
  /\ UNCHANGED <<fs, fds, lock, clock, attempts, inCs, result, ran, released, nextId, seed, rateMap, handled>>

\* callers of the concurrent store specifications
Callers == {"a", "b"}

InitMovies ==
  /\ InitCallers
  /\ seed \in {<<>>, <<Json(<<Movie1>>)>>}
  /\ fs = IF seed = <<>> THEN <<>> ELSE Put(<<>>, Real(MOVIES_FILE), seed[1])
  /\ nextId = IF seed = <<>> THEN 0 ELSE 1
  /\ clock = 0

NextMovies ==
  \/ Tick
  \/ \E p \in Callers :
       \/ createMovie_call(p)
       \/ updateMovie_call(p)
       \/ deleteMovie_call(p)
       \/ incrementMovieView_call(p)
       \/ ensureJsonFile(p)
       \/ withFileLock_lock(p)
       \/ readJsonFile(p)
       \/ writeJsonFile_open(p)
       \/ writeJsonFile_write(p)
       \/ writeJsonFile_rename(p)
       \/ withFileLock_release(p)

SpecMovies == InitMovies /\ [][NextMovies]_vars

-----------------------------------------------------------------------------
(* Calls on the series files, one after the other *)

\* the caller of the sequential specification
Solo == "a"

SeedEpisode == [id |-> Uuid(2), title |-> "Pilot", season |-> 1, episode |-> 1,
                duration |-> 10, published |-> TRUE, views |-> 2, lastUpdated |-> 0]
SeedSeries == [id |-> Uuid(1), name |-> "Echoes", slug |-> "echoes",
               seasons |-> <<[season |-> 1, episodes |-> <<SeedEpisode>>]>>,
               published |-> FALSE, createdAt |-> 0, updatedAt |-> 0]

\* an episode of an import payload that leaves published and views out
E(s, e) == [id |-> Uuid(100 + 10 * s + e), title |-> "Pilot", season |-> s,
            episode |-> e, duration |-> 10, lastUpdated |-> 0]

IncomingSeasons ==
  { <<>>,
    <<[season |-> 1, episodes |-> <<E(1, 1)>>]>>,
    <<[season |-> 2, episodes |-> <<E(2, 1)>>]>>,
    <<[season |-> 2, episodes |-> <<E(2, 1)>>], [season |-> 1, episodes |-> <<E(1, 2)>>]>>,
    <<[season |-> 1, episodes |-> <<E(1, 2), E(1, 1)>>]>>,
    <<[season |-> 1, episodes |-> <<E(1, 1)>>], [season |-> 1, episodes |-> <<E(1, 2)>>]>>,
    <<[season |-> 1, episodes |-> <<[season |-> 1, episode |-> 1, duration |-> 20]>>]>>,
    <<[season |-> 2, episodes |-> <<E(1, 1)>>]>> }

\* import payloads; the last carries an id of its own
SeriesPayloads ==
  {[name |-> "Echoes", seasons |-> i] : i \in IncomingSeasons}
    \cup {[name |-> "Echoes", seasons |-> <<>>, id |-> Uuid(9)]}

SeriesUpdates ==
  { [published |-> TRUE, slug |-> "atlas"],
    [name |-> ""],
    [id |-> Uuid(9), createdAt |-> 2],
    [seasons |-> <<[season |-> 2, episodes |-> <<E(2, 1)>>],
                   [season |-> 1, episodes |-> <<E(1, 1)>>]>>] }

EpisodeShapes ==
  { [title |-> "Pilot Extended"],
    [duration |-> 20],
    [title |-> "Pilot Extended", duration |-> 20, published |-> FALSE],
    [title |-> "Pilot", duration |-> 10, published |-> TRUE, id |-> Uuid(2), views |-> 7] }

\* the (season, episode) pairs the calls name: the stored pair of SeedSeries,
\* a new episode of its season, an episode of a new season
EpisodePairs == {<<1, 1>>, <<1, 2>>, <<2, 1>>}

EpisodePayloads ==
  {Spread(shape, [season |-> pair[1], episode |-> pair[2]]) :
     pair \in EpisodePairs, shape \in EpisodeShapes}

Slugs == {"echoes"}

\* readSeriesFile(slug) with no other caller about: lines 164-174
readSeriesFile(slug) ==
  LET name == Real(seriesPath(slug))
  IN  IF ~existsSync(name) THEN Ok(NoDoc)
      ELSE IF fs[name].kind = "empty" THEN Err("SyntaxError")
      ELSE seriesSchema(fs[name].doc)

\* to compare with: the file is named by the series' name
saveSeriesByName(dir, series) ==
  Put(dir, Real(seriesPath(series.name)), Json(series))

\* saveSeries(series), lines 176-181, with no other caller about: the path is
\* made from series.slug
saveSeries(dir, series) ==
  Put(dir, Real(seriesPath(series.slug)), Json(series))

\* one whole call c on the series file of `slug`: readSeriesFile, the code
\* after it, saveSeries (which writes at the slug of the series it is given)
RunSeries(c, slug) ==
  /\ opCount < MaxOps
  /\ pc[Solo] = "idle"
  /\ LET existing == readSeriesFile(slug)
         d == Decide(c, existing.value, clock)
     IN  /\ call' = [call EXCEPT ![Solo] = c]
         /\ local' = [local EXCEPT ![Solo].snap = existing.value]
         /\ IF existing.status = "error"
            THEN /\ result' = [result EXCEPT ![Solo] = existing]
                 /\ UNCHANGED fs
            ELSE /\ result' = [result EXCEPT ![Solo] =
                                 IF d.kind = "throw" THEN Err(d.value) ELSE Ok(d.value)]
                 /\ fs' = IF d.kind = "save"
                          THEN saveSeries(fs, d.next)
                          ELSE fs
  /\ opCount' = opCount + 1
  /\ UNCHANGED <<fds, lock, clock, pc, attempts, inCs, ran, released, seed, rateMap, handled>>

createOrMergeSeries_run ==
  \E payload \in SeriesPayloads :
    /\ RunSeries([op |-> "createOrMergeSeries", path |-> seriesPath(payloadSlug(payload)),
                  payload |-> payload, now |-> clock, uuid |-> Uuid(nextId + 1)],
                 payloadSlug(payload))
    /\ nextId' = nextId + 1

updateSeries_run ==
  \E slug \in Slugs, update \in SeriesUpdates :
    /\ RunSeries([op |-> "updateSeries", path |-> seriesPath(slug), slug |-> slug,
                  update |-> update], slug)
    /\ UNCHANGED nextId

mergeEpisode_run ==
  \E slug \in Slugs, payload \in EpisodePayloads :
    /\ RunSeries([op |-> "mergeEpisode", path |-> seriesPath(slug), slug |-> slug,
                  payload |-> payload, now |-> clock, uuid |-> Uuid(nextId + 1)], slug)
    /\ nextId' = nextId + 1

incrementSeriesView_run ==
  \E slug \in Slugs, pair \in EpisodePairs :
    /\ RunSeries([op |-> "incrementSeriesView", path |-> seriesPath(slug), slug |-> slug,
                  season |-> pair[1], episode |-> pair[2], now |-> clock], slug)
    /\ UNCHANGED nextId

InitSeries ==
  /\ InitCallers
  /\ seed \in {<<>>, <<Json(SeedSeries)>>}
  /\ fs = IF seed = <<>> THEN <<>> ELSE Put(<<>>, Real(seriesPath("echoes")), seed[1])
  /\ nextId = IF seed = <<>> THEN 0 ELSE 2
  /\ clock = 0

NextSeries ==
  \/ Tick
  \/ createOrMergeSeries_run
  \/ updateSeries_run
  \/ mergeEpisode_run
  \/ incrementSeriesView_run

SpecSeries == InitSeries /\ [][NextSeries]_vars

-----------------------------------------------------------------------------
(* Concurrent calls on one series file *)

\* readSeriesFile, lines 165-168: existsSync(path), outside any lock; null
\* goes straight to the code after readSeriesFile
readSeriesFile_exists(p) ==
  /\ pc[p] = "exists"
  /\ IF existsSync(Real(call[p].path))
     THEN /\ pc' = [pc EXCEPT ![p] = "lock"]
          /\ UNCHANGED <<local, result>>
     ELSE LET k == AfterLoad(p, local[p], NoDoc)
          IN  /\ pc' = [pc EXCEPT ![p] = k.pc]
              /\ local' = [local EXCEPT ![p] = k.local]
              /\ result' = [result EXCEPT ![p] = k.result]
  /\ UNCHANGED <<fs, fds, lock, clock, call, attempts, inCs, ran, released, nextId,
                 opCount, seed, rateMap, handled>>

\* the fn of readSeriesFile, lines 170-172: readFile, JSON.parse, the schema
readSeriesFile_fn(p) ==
  /\ pc[p] = "read"
  /\ call[p].path # MOVIES_FILE
  /\ LET name == Real(call[p].path)
     IN  IF ~existsSync(name) THEN Thrown(p, "ENOENT")
         ELSE IF fs[name].kind = "empty" THEN Thrown(p, "SyntaxError")
         ELSE LET parsed == seriesSchema(fs[name].doc)
              IN  IF parsed.status = "error"
                  THEN Thrown(p, "ZodError")
                  ELSE /\ pc' = [pc EXCEPT ![p] = "release"]
                       /\ inCs' = [inCs EXCEPT ![p] = FALSE]
                       /\ local' = [local EXCEPT ![p].pending = parsed]
                       /\ UNCHANGED result
  /\ UNCHANGED <<fs, fds, lock, clock, call, attempts, ran, released, nextId, opCount, seed, rateMap, handled>>

\* the call reaches its readSeriesFile(slug)
StartRead(p, c) ==
  /\ call' = [call EXCEPT ![p] = c]
  /\ local' = [local EXCEPT ![p] = [NoLocal EXCEPT !.phase = "load"]]
  /\ pc' = [pc EXCEPT ![p] = "exists"]
  /\ opCount' = opCount + 1

\* episodes 2 and 3 of season 1, whole payloads
NewEpisodePayloads ==
  {[title |-> "Pilot Extended", duration |-> 20, published |-> TRUE,
    season |-> 1, episode |-> e] : e \in 2..3}

\* mergeEpisode(slug, episodePayload) is called: line 245
mergeEpisode_call(p) ==
  /\ pc[p] = "idle"
  /\ \E slug \in Slugs, payload \in NewEpisodePayloads :
       StartRead(p, [op |-> "mergeEpisode", path |-> seriesPath(slug), slug |-> slug,
                     payload |-> payload, uuid |-> Uuid(nextId + 1)])
  /\ nextId' = nextId + 1
  /\ UNCHANGED <<fs, fds, lock, clock, attempts, inCs, result, ran, released, seed, rateMap, handled>>

\* incrementSeriesView(slug, season, episodeNumber) is called: line 293
incrementSeriesView_call(p) ==
  /\ pc[p] = "idle"
  /\ \E slug \in Slugs :
       StartRead(p, [op |-> "incrementSeriesView", path |-> seriesPath(slug),
                     slug |-> slug, season |-> 1, episode |-> 1])
  /\ UNCHANGED <<fs, fds, lock, clock, attempts, inCs, result, ran, released, nextId, seed, rateMap, handled>>

InitEpisodes ==
  /\ InitCallers
  /\ seed = <<Json(SeedSeries)>>
  /\ fs = Put(<<>>, Real(seriesPath("echoes")), seed[1])
  /\ nextId = 2
  /\ clock = 0

NextEpisodes ==
  \/ Tick
  \/ \E p \in Callers :
       \/ mergeEpisode_call(p)
       \/ incrementSeriesView_call(p)
       \/ readSeriesFile_exists(p)
       \/ withFileLock_lock(p)
       \/ readSeriesFile_fn(p)
       \/ writeJsonFile_open(p)
       \/ writeJsonFile_write(p)
       \/ writeJsonFile_rename(p)
       \/ withFileLock_release(p)

SpecEpisodes == InitEpisodes /\ [][NextEpisodes]_vars

-----------------------------------------------------------------------------
(* Users: src/src/types/catalog.ts 165-185 (schemas), 230-334 (service)     *)
(* A call is cut at its lock scopes: one action is one withFileLock scope    *)
(* together with the unlocked code before it (existsSync, ensureJsonFile)    *)
(* and the code that follows it up to the next scope; scopes of one path do  *)
(* not overlap, and the calls interleave between their scopes.               *)

\* the admin file and the users list file; of the stored { admin: ... } and
\* { users: [...] } the model keeps the record and the list
ADMIN_FILE == "admin.json"
USERS_FILE == "users.json"

\* usernameSchema: the form of a username, on the strings of the model
UsernameOk(str) == str \in {"root", "ann", "bob"}
\* passwordSchema: at least 8 characters
PasswordOk(str) == str \in {"password1", "password2"}
Roles == {"admin", "user"}

\* bcrypt.hash(password, 12)
Hash(password) == <<"bcrypt", password>>

UserKeys == {"id", "username", "passwordHash", "role", "active", "createdAt", "updatedAt"}

\* userSchema.parse(obj)
userSchema(obj) ==
  IF /\ (UserKeys \ {"active"}) \subseteq DOMAIN obj
     /\ UuidOk(obj.id)
     /\ UsernameOk(obj.username)
     /\ obj.role \in Roles
  THEN Ok([k \in UserKeys |->
             CASE k = "username" -> sanitize(obj.username)
               [] k = "active" -> IF Has(obj, "active") THEN obj.active ELSE TRUE
               [] OTHER -> obj[k]])
  ELSE Err("ZodError")

\* userSchema.array().parse(list)
userSchemaArray(list) == AllOk([i \in 1..Len(list) |-> userSchema(list[i])])

\* createUserSchema.parse(payload)
createUserSchema(payload) ==
  IF /\ {"username", "password"} \subseteq DOMAIN payload
     /\ UsernameOk(payload.username)
     /\ PasswordOk(payload.password)
     /\ (Has(payload, "role") => payload.role \in Roles)
  THEN Ok([username |-> sanitize(payload.username), password |-> payload.password,
           role |-> IF Has(payload, "role") THEN payload.role ELSE "user"])
  ELSE Err("ZodError")

\* updateUserSchema.parse(update)
updateUserSchema(update) ==
  IF /\ (Has(update, "password") => PasswordOk(update.password))
     /\ (Has(update, "role") => update.role \in Roles)
  THEN Ok([k \in DOMAIN update \cap {"password", "active", "role"} |-> update[k]])
  ELSE Err("ZodError")

\* the record createUser builds: lines 266-276, bcrypt.hash included
newUser(parsed, uuid, now) ==
  userSchema([id |-> uuid, username |-> parsed.username,
              passwordHash |-> Hash(parsed.password), role |-> parsed.role,
              active |-> TRUE, createdAt |-> now, updatedAt |-> now])

\* applyUserUpdate(user, update): lines 319-334
applyUserUpdate(user, update, now) ==
  userSchema(Spread(user,
    [passwordHash |-> IF Has(update, "password") THEN Hash(update.password)
                      ELSE user.passwordHash,
     active |-> IF Has(update, "active") THEN update.active ELSE user.active,
     role |-> IF Has(update, "role") THEN update.role ELSE user.role,
     updatedAt |-> now]))

\* the call of caller p goes on at `at`, or ends with `res`
Goes(p, at, l) ==
  /\ pc' = [pc EXCEPT ![p] = at]
  /\ local' = [local EXCEPT ![p] = l]
  /\ UNCHANGED result
Ends(p, res) ==
  /\ pc' = [pc EXCEPT ![p] = "done"]
  /\ result' = [result EXCEPT ![p] = res]
  /\ UNCHANGED local

\* goes on with the parsed record as local `field`, or ends with the error
GoesWith(p, at, parsed) ==
  IF parsed.status = "error" THEN Ends(p, parsed)
  ELSE Goes(p, at, [local[p] EXCEPT !.next = parsed.value])

\* the username is stored, in the admin file or in the users list
Held(username) ==
  \/ /\ existsSync(Real(ADMIN_FILE))
     /\ fs[Real(ADMIN_FILE)].doc.username = username
  \/ /\ existsSync(Real(USERS_FILE))
     /\ \E i \in 1..Len(fs[Real(USERS_FILE)].doc) :
          fs[Real(USERS_FILE)].doc[i].username = username

\* createUser(payload) is called: line 261
createUser_call(p) ==
  /\ pc[p] = "idle"
  /\ \E username \in {"root", "ann", "bob"}, role \in Roles :
       /\ call' = [call EXCEPT ![p] =
            [op |-> "createUser", path |-> USERS_FILE,
             parsed |-> createUserSchema([username |-> username,
                                          password |-> "password1", role |-> role]).value,
             uuid |-> Uuid(nextId + 1), held |-> Held(username)]]
  /\ pc' = [pc EXCEPT ![p] = "getAdmin"]
  /\ nextId' = nextId + 1
  /\ opCount' = opCount + 1
  /\ UNCHANGED <<fs, fds, lock, clock, attempts, inCs, local, result, ran, released, seed, rateMap, handled>>

UserUpdates == {[role |-> "admin"], [role |-> "user"], [active |-> FALSE],
                [password |-> "password2"]}

\* updateUser(username, update) is called: line 297
updateUser_call(p) ==
  /\ pc[p] = "idle"
  /\ \E username \in {"root", "ann"}, update \in UserUpdates :
       call' = [call EXCEPT ![p] =
         [op |-> "updateUser", path |-> USERS_FILE, username |-> username,
          parsed |-> updateUserSchema(update).value]]
  /\ pc' = [pc EXCEPT ![p] = "getAdmin"]
  /\ opCount' = opCount + 1
  /\ UNCHANGED <<fs, fds, lock, clock, attempts, inCs, local, result, ran, released,
                 nextId, seed, rateMap, handled>>

\* what getAdmin() returns: lines 238-247, NoDoc for null
adminRecord ==
  IF existsSync(Real(ADMIN_FILE)) THEN userSchema(fs[Real(ADMIN_FILE)].doc) ELSE Ok(NoDoc)

\* the code after getAdmin(): findUserByUsername 251-253, updateUser 299-305
afterGetAdmin(p, admin) ==
  IF admin.status = "error" THEN Ends(p, admin)
  ELSE IF call[p].op = "createUser"
  THEN IF admin.value # NoDoc /\ admin.value.username = call[p].parsed.username
       THEN Ends(p, Err("Username already exists"))
       ELSE Goes(p, "listUsers", local[p])
  ELSE IF admin.value # NoDoc /\ admin.value.username = call[p].username
       THEN GoesWith(p, "saveAdmin", applyUserUpdate(admin.value, call[p].parsed, clock))
       ELSE Goes(p, "listUsers", local[p])

\* getAdmin() and the code after it
getAdmin(p) ==
  /\ pc[p] = "getAdmin"
  /\ afterGetAdmin(p, adminRecord)
  /\ UNCHANGED <<fs, fds, lock, clock, call, attempts, inCs, ran, released, nextId,
                 opCount, seed, rateMap, handled>>

\* the files after the ensureJsonFile of listUsers: line 231
ensuredUsers ==
  IF existsSync(Real(USERS_FILE)) THEN fs ELSE Put(fs, Real(USERS_FILE), Json(<<>>))

\* the list with the record at `index` replaced: updateUser 311-312
replacedUser(p, users, index, updated) ==
  IF updated.status = "error" THEN Ends(p, updated)
  ELSE Goes(p, "saveUsers", [local[p] EXCEPT !.next = [users EXCEPT ![index] = updated.value]])

\* updateUser, lines 308-311, the index found
updateAt(p, users, index) ==
  IF index = 0 THEN Ends(p, Err("User not found"))
  ELSE replacedUser(p, users, index, applyUserUpdate(users[index], call[p].parsed, clock))

\* the code after the first listUsers(): findUserByUsername 254-255 and
\* createUser 263-277, updateUser 307-312
afterListUsers(p, users) ==
  IF users.status = "error" THEN Ends(p, users)
  ELSE IF call[p].op = "updateUser"
  THEN updateAt(p, users.value,
                FindIndex({i \in 1..Len(users.value) :
                             users.value[i].username = call[p].username}))
  ELSE IF \E i \in 1..Len(users.value) :
            users.value[i].username = call[p].parsed.username
  THEN Ends(p, Err("Username already exists"))
  ELSE GoesWith(p, IF call[p].parsed.role = "admin" THEN "saveAdmin" ELSE "relist",
                newUser(call[p].parsed, call[p].uuid, clock))

\* the code after the second listUsers() of createUser: lines 284-285
afterRelist(p, users) ==
  IF users.status = "error" THEN Ends(p, users)
  ELSE Goes(p, "saveUsers",
            [local[p] EXCEPT !.next = Append(users.value, local[p].next)])

\* listUsers(): lines 230-236, and the code after it
listUsers(p) ==
  /\ pc[p] \in {"listUsers", "relist"}
  /\ fs' = ensuredUsers
  /\ IF pc[p] = "listUsers"
     THEN afterListUsers(p, userSchemaArray(ensuredUsers[Real(USERS_FILE)].doc))
     ELSE afterRelist(p, userSchemaArray(ensuredUsers[Real(USERS_FILE)].doc))
  /\ UNCHANGED <<fds, lock, clock, call, attempts, inCs, ran, released, nextId,
                 opCount, seed, rateMap, handled>>

\* withFileLock(ADMIN_FILE, writeJsonFile(ADMIN_FILE, { admin })): lines
\* 278-282 (ensureDir and ensureJsonFile before it) and 301-303
saveAdmin(p) ==
  /\ pc[p] = "saveAdmin"
  /\ fs' = Put(fs, Real(ADMIN_FILE), Json(local[p].next))
  /\ Ends(p, Ok(IF call[p].op = "createUser" THEN "created" ELSE "updated"))
  /\ UNCHANGED <<fds, lock, clock, call, attempts, inCs, ran, released, nextId,
                 opCount, seed, rateMap, handled>>

\* withFileLock(USERS_FILE, writeJsonFile(USERS_FILE, { users })): lines
\* 286-288 and 313-315
saveUsers(p) ==
  /\ pc[p] = "saveUsers"
  /\ fs' = Put(fs, Real(USERS_FILE), Json(local[p].next))
  /\ Ends(p, Ok(IF call[p].op = "createUser" THEN "created" ELSE "updated"))
  /\ UNCHANGED <<fds, lock, clock, call, attempts, inCs, ran, released, nextId,
                 opCount, seed, rateMap, handled>>

RootUser == [id |-> Uuid(1), username |-> "root", passwordHash |-> Hash("password1"),
             role |-> "admin", active |-> TRUE, createdAt |-> 0, updatedAt |-> 0]
AnnUser == [id |-> Uuid(2), username |-> "ann", passwordHash |-> Hash("password1"),
            role |-> "user", active |-> TRUE, createdAt |-> 0, updatedAt |-> 0]

\* a new installation, or one with its admin and one listed user
InitUsers ==
  /\ InitCallers
  /\ seed \in {<<>>, <<Json(RootUser), Json(<<AnnUser>>)>>}
  /\ fs = IF seed = <<>> THEN <<>>
          ELSE Put(Put(<<>>, Real(ADMIN_FILE), seed[1]), Real(USERS_FILE), seed[2])
  /\ nextId = IF seed = <<>> THEN 0 ELSE 2
  /\ clock = 0

NextUsers ==
  \/ Tick
  \/ \E p \in Callers :
       \/ createUser_call(p)
       \/ updateUser_call(p)
       \/ getAdmin(p)
       \/ listUsers(p)
       \/ saveAdmin(p)
       \/ saveUsers(p)

SpecUsers == InitUsers /\ [][NextUsers]_vars

-----------------------------------------------------------------------------
(* Watch history: src/src/types/catalog.ts 156-163 (schema), 346-366        *)

\* `${HISTORY_ROOT}${username}.json`; of the stored { history: [...] } the
\* model keeps the list
historyPath(username) == username

STREAM_TYPES == {"movie", "series"}

\* historyEntrySchema.parse(obj)
historyEntrySchema(obj) ==
  IF /\ {"contentId", "type", "progress", "lastWatched"} \subseteq DOMAIN obj
     /\ obj.type \in STREAM_TYPES
     /\ obj.progress \in 0..1
     /\ (Has(obj, "season") => obj.season >= 1)
     /\ (Has(obj, "episode") => obj.episode >= 1)
  THEN Ok([k \in DOMAIN obj \cap {"contentId", "type", "progress", "lastWatched",
                                  "season", "episode"} |-> obj[k]])
  ELSE Err("ZodError")

\* historyEntrySchema.array().parse(list)
historyEntrySchemaArray(list) ==
  AllOk([i \in 1..Len(list) |-> historyEntrySchema(list[i])])

\* to compare with unshifted: the entry pushed, not unshifted
unshiftedLast(list, entry) ==
  Append(SelectSeq(list, LAMBDA item : item.contentId # entry.contentId), entry)

\* lines 362-363: history.filter(...) and filtered.unshift(entry)
unshifted(list, entry) ==
  <<entry>> \o SelectSeq(list, LAMBDA item : item.contentId # entry.contentId)

\* the fn of appendHistory, lines 360-364, on the parsed list
appendParsed(parsed, entry) ==
  IF parsed.status = "error" THEN parsed ELSE Ok(unshifted(parsed.value, entry))

\* appendHistory(username, entry) with no other caller about, lines 355-366:
\* the list to write, or the error thrown; ensureJsonFile has written
\* { history: [] } to a path that did not exist
appendHistory(username, entry) ==
  LET name == Real(historyPath(username))
  IN  IF ~existsSync(name) THEN Ok(<<entry>>)
      ELSE IF fs[name].kind = "empty" THEN Err("SyntaxError")
      ELSE appendParsed(historyEntrySchemaArray(fs[name].doc), entry)

\* the list stored for `username`, <<>> where there is none
history(username) ==
  LET name == Real(historyPath(username))
  IN  IF existsSync(name) /\ fs[name].kind = "json" THEN fs[name].doc ELSE <<>>

ContentIds == {"m1", "m2", "s1"}

\* the entry the route hands over: historyEntrySchema.parse(req.body)
HistoryEntry(contentId, progress, lastWatched) ==
  IF contentId = "s1"
  THEN [contentId |-> contentId, type |-> "series", progress |-> progress,
        lastWatched |-> lastWatched, season |-> 1, episode |-> 1]
  ELSE [contentId |-> contentId, type |-> "movie", progress |-> progress,
        lastWatched |-> lastWatched]

\* one whole call of appendHistory
appendHistory_run ==
  /\ opCount < MaxOps
  /\ pc[Solo] = "idle"
  /\ \E contentId \in ContentIds, progress \in 0..1 :
       LET entry == HistoryEntry(contentId, progress, clock)
           out == appendHistory("ann", entry)
       IN  /\ call' = [call EXCEPT ![Solo] =
                 [op |-> "appendHistory", path |-> historyPath("ann"), entry |-> entry]]
           /\ local' = [local EXCEPT ![Solo].snap = history("ann")]
           /\ result' = [result EXCEPT ![Solo] =
                 IF out.status = "error" THEN out ELSE Ok("appended")]
           /\ fs' = IF out.status = "error" THEN fs
                    ELSE Put(fs, Real(historyPath("ann")), Json(out.value))
  /\ opCount' = opCount + 1
  /\ UNCHANGED <<fds, lock, clock, pc, attempts, inCs, ran, released, nextId, seed, rateMap, handled>>

SeedHistory == <<HistoryEntry("m1", 1, 0), HistoryEntry("s1", 0, 0), HistoryEntry("m2", 0, 0)>>

\* no history file yet, or one that appendHistory calls have written
InitHistory ==
  /\ InitCallers
  /\ seed \in {<<>>, <<Json(SeedHistory)>>}
  /\ fs = IF seed = <<>> THEN <<>> ELSE Put(<<>>, Real(historyPath("ann")), seed[1])
  /\ nextId = 0
  /\ clock = 0

NextHistory ==
  \/ Tick
  \/ appendHistory_run

SpecHistory == InitHistory /\ [][NextHistory]_vars

-----------------------------------------------------------------------------
(* Concurrent appendHistory calls for one user *)

\* appendHistory(username, entry) up to its ensureJsonFile: lines 355-358
appendHistory_call(p) ==
  /\ pc[p] = "idle"
  /\ \E contentId \in ContentIds :
       StartLoad(p, [op |-> "appendHistory", path |-> historyPath("ann"),
                     entry |-> HistoryEntry(contentId, 1, clock)])
  /\ UNCHANGED <<fs, fds, lock, clock, attempts, inCs, result, ran, released, nextId, seed, rateMap, handled>>

\* the fn of appendHistory, lines 360-364, up to its writeJsonFile:
\* readJsonFile (where readFile gives ENOENT the default is written, and it
\* is what is read next), the schema, filter and unshift
appendHistory_fn(p) ==
  /\ pc[p] = "read"
  /\ call[p].op = "appendHistory"
  /\ LET name == Real(call[p].path)
     IN  IF ~existsSync(name)
         THEN /\ pc' = [pc EXCEPT ![p] = "wopen"]
              /\ local' = [local EXCEPT ![p].wdata = DefaultDoc(call[p]),
                                        ![p].wret = "read"]
              /\ UNCHANGED <<inCs, result>>
         ELSE IF fs[name].kind = "empty"
         THEN Thrown(p, "SyntaxError")
         ELSE LET out == appendParsed(historyEntrySchemaArray(fs[name].doc), call[p].entry)
              IN  IF out.status = "error"
                  THEN Thrown(p, "ZodError")
                  ELSE /\ pc' = [pc EXCEPT ![p] = "wopen"]
                       /\ local' = [local EXCEPT ![p].wdata = out.value,
                                                 ![p].wret = "release",
                                                 ![p].snap = fs[name].doc]
                       /\ UNCHANGED <<inCs, result>>
  /\ UNCHANGED <<fs, fds, lock, clock, call, attempts, ran, released, nextId, opCount, seed, rateMap, handled>>

NextAppend ==
  \/ Tick
  \/ \E p \in Callers :
       \/ appendHistory_call(p)
       \/ ensureJsonFile(p)
       \/ withFileLock_lock(p)
       \/ appendHistory_fn(p)
       \/ writeJsonFile_open(p)
       \/ writeJsonFile_write(p)
       \/ writeJsonFile_rename(p)
       \/ withFileLock_release(p)

SpecAppend == InitHistory /\ [][NextAppend]_vars

-----------------------------------------------------------------------------
(* Categories: src/src/types/catalog.ts 46-62, catalogService.ts 26-79      *)

\* of the stored { categories: [...] } the model keeps the list
CATEGORIES_FILE == "categories.json"

\* categorySchema.parse(obj)
categorySchema(obj) ==
  IF /\ {"id", "name", "slug", "order"} \subseteq DOMAIN obj
     /\ UuidOk(obj.id)
     /\ obj.name # ""
     /\ obj.slug # "" /\ SlugOk(obj.slug)
     /\ obj.order >= 0
  THEN Ok([id |-> obj.id, name |-> sanitize(obj.name), slug |-> sanitize(obj.slug),
           order |-> obj.order])
  ELSE Err("ZodError")

\* categories.sort((a, b) => a.order - b.order || a.name.localeCompare(b.name))
sortCategories(categories) ==
  StableSort(categories,
             [i \in 1..Len(categories) |-> 10 * categories[i].order + Rank(categories[i].name)])

\* createCategory, lines 42-46; `category` is what line 42 has parsed
createCategory(categories, category) ==
  IF category.status = "error" THEN Throw("ZodError")
  ELSE Save(sortCategories(Append(categories, category.value)), "created")

\* an updateCategory that saves the merged record and validates it afterwards,
\* to compare with
updateCategorySavingFirst(categories, id, update) ==
  LET index == FindIndex({i \in 1..Len(categories) : categories[i].id = id})
      merged == Spread(categories[index], update)
  IN  IF index = 0 THEN Throw("Category not found")
      ELSE IF categorySchema(merged).status = "error"
      THEN [kind |-> "throw", value |-> "ZodError",
            next |-> Json([categories EXCEPT ![index] = merged])]
      ELSE Save(sortCategories([categories EXCEPT ![index] = categorySchema(merged).value]),
                "updated")

\* updateCategory after listCategories: lines 52-59
updateCategory(categories, id, update) ==
  LET index == FindIndex({i \in 1..Len(categories) : categories[i].id = id})
      updated == categorySchema(Spread(categories[index], update))
  IN  IF index = 0 THEN Throw("Category not found")
      ELSE IF updated.status = "error" THEN Throw("ZodError")
      ELSE Save(sortCategories([categories EXCEPT ![index] = updated.value]), "updated")

\* deleteCategory after listCategories: lines 65-66
deleteCategory(categories, id) ==
  Save(SelectSeq(categories, LAMBDA cat : cat.id # id), "deleted")

\* reorderCategories after listCategories, lines 71-77: orderMap gives an id
\* the last index it has in `order`
reorderCategories(categories, order) ==
  LET at(id) == {idx \in 1..Len(order) : order[idx] = id}
      placed(cat) == IF at(cat.id) = {} THEN cat.order
                     ELSE (CHOOSE idx \in at(cat.id) : \A k \in at(cat.id) : k <= idx) - 1
  IN  Save(sortCategories([i \in 1..Len(categories) |->
                             [categories[i] EXCEPT !.order = placed(categories[i])]]),
           "reordered")

\* listCategories() with no other caller about, lines 26-32: ensureJsonFile
\* has written { categories: [] } to a path that did not exist
listCategories ==
  LET name == Real(CATEGORIES_FILE)
  IN  IF ~existsSync(name) THEN Ok(<<>>)
      ELSE IF fs[name].kind = "empty" THEN Err("SyntaxError")
      ELSE AllOk([i \in 1..Len(fs[name].doc) |-> categorySchema(fs[name].doc[i])])

\* what the code after listCategories() does with the list
DecideCategories(c, categories) ==
  CASE c.op = "createCategory" -> createCategory(categories, c.category)
    [] c.op = "updateCategory" -> updateCategory(categories, c.id, c.update)
    [] c.op = "deleteCategory" -> deleteCategory(categories, c.id)
    [] c.op = "reorderCategories" -> reorderCategories(categories, c.order)

\* one whole call c: listCategories(), the code after it, saveCategories;
\* createCategory parses before it lists. A call that throws has stored what
\* it had saved before (`next`; nothing, in the code of the service)
RunCategories(c) ==
  /\ opCount < MaxOps
  /\ pc[Solo] = "idle"
  /\ LET listed == IF c.op = "createCategory" /\ c.category.status = "error"
                   THEN Err("ZodError") ELSE listCategories
         made == IF listed.status = "error" THEN Throw(listed.value) ELSE DecideCategories(c, listed.value)
     IN  /\ call' = [call EXCEPT ![Solo] = c]
         /\ local' = [local EXCEPT ![Solo].snap = listed.value]
         /\ result' = [result EXCEPT ![Solo] =
                         IF made.kind = "throw" THEN Err(made.value) ELSE Ok(made.value)]
         /\ fs' = IF made.kind = "save" THEN Put(fs, Real(CATEGORIES_FILE), Json(made.next))
                  ELSE IF made.next # NoDoc THEN Put(fs, Real(CATEGORIES_FILE), made.next)
                  ELSE IF c.op = "createCategory" /\ c.category.status = "error" THEN fs
                  ELSE IF existsSync(Real(CATEGORIES_FILE)) THEN fs
                  ELSE Put(fs, Real(CATEGORIES_FILE), Json(<<>>))
  /\ opCount' = opCount + 1
  /\ UNCHANGED <<fds, lock, clock, pc, attempts, inCs, ran, released, seed, rateMap, handled>>

CategoryInputs == {[name |-> "Alpha", slug |-> "alpha", order |-> 1],
                   [name |-> "Beta", slug |-> "beta", order |-> 0]}
CategoryUpdates == {[name |-> "Alpha"], [slug |-> "alpha"], [order |-> 2],
                    [order |-> -1], [id |-> Uuid(1)]}

createCategory_run ==
  \E input \in CategoryInputs :
    LET category == categorySchema(Spread(input, [id |-> Uuid(nextId + 1)]))
    IN  /\ RunCategories([op |-> "createCategory", path |-> CATEGORIES_FILE,
                          category |-> category])
        /\ nextId' = nextId + 1

updateCategory_run ==
  \E id \in {Uuid(1), Uuid(2), Uuid(3)}, update \in CategoryUpdates :
    /\ RunCategories([op |-> "updateCategory", path |-> CATEGORIES_FILE,
                      id |-> id, update |-> update])
    /\ UNCHANGED nextId

deleteCategory_run ==
  \E id \in {Uuid(1), Uuid(2)} :
    /\ RunCategories([op |-> "deleteCategory", path |-> CATEGORIES_FILE, id |-> id])
    /\ UNCHANGED nextId

reorderCategories_run ==
  \E order \in {<<>>, <<Uuid(2), Uuid(1)>>, <<Uuid(2)>>} :
    /\ RunCategories([op |-> "reorderCategories", path |-> CATEGORIES_FILE, order |-> order])
    /\ UNCHANGED nextId

SeedCategories == <<[id |-> Uuid(1), name |-> "Alpha", slug |-> "alpha", order |-> 0],
                    [id |-> Uuid(2), name |-> "Beta", slug |-> "beta", order |-> 1]>>

InitCategories ==
  /\ InitCallers
  /\ seed \in {<<>>, <<Json(SeedCategories)>>}
  /\ fs = IF seed = <<>> THEN <<>> ELSE Put(<<>>, Real(CATEGORIES_FILE), seed[1])
  /\ nextId = IF seed = <<>> THEN 0 ELSE 2
  /\ clock = 0

NextCategories ==
  \/ createCategory_run
  \/ updateCategory_run
  \/ deleteCategory_run
  \/ reorderCategories_run

SpecCategories == InitCategories /\ [][NextCategories]_vars

-----------------------------------------------------------------------------
(* Calls on all the stores, one after the other *)

\* listMovies() with no other caller about, lines 81-87: ensureJsonFile has
\* written { movies: [] } to a path that did not exist
listMovies ==
  LET name == Real(MOVIES_FILE)
  IN  IF ~existsSync(name) THEN Ok(<<>>)
      ELSE IF fs[name].kind = "empty" THEN Err("SyntaxError")
      ELSE movieSchemaArray(fs[name].doc)

\* one whole call c on the movies file: listMovies, the code after it,
\* saveMovies
RunMovies(c) ==
  /\ opCount < MaxOps
  /\ pc[Solo] = "idle"
  /\ LET listed == listMovies
         made == IF listed.status = "error" THEN Throw(listed.value)
                 ELSE Decide(c, listed.value, clock)
     IN  /\ call' = [call EXCEPT ![Solo] = c]
         /\ local' = [local EXCEPT ![Solo].snap = listed.value]
         /\ result' = [result EXCEPT ![Solo] =
                         IF made.kind = "throw" THEN Err(made.value) ELSE Ok(made.value)]
         /\ fs' = IF made.kind = "save" THEN Put(fs, Real(MOVIES_FILE), Json(made.next))
                  ELSE IF existsSync(Real(MOVIES_FILE)) THEN fs
                  ELSE Put(fs, Real(MOVIES_FILE), Json(<<>>))
  /\ opCount' = opCount + 1
  /\ UNCHANGED <<fds, lock, clock, pc, attempts, inCs, ran, released, seed, rateMap, handled>>

updateMovie_run ==
  \E id \in MovieIds, update \in MovieUpdates \cup {[views |-> -1]} :
    /\ RunMovies([op |-> "updateMovie", path |-> MOVIES_FILE, id |-> id, update |-> update])
    /\ UNCHANGED nextId

incrementMovieView_run ==
  \E id \in MovieIds :
    /\ RunMovies([op |-> "incrementMovieView", path |-> MOVIES_FILE, id |-> id])
    /\ UNCHANGED nextId

\* one whole call of updateUser(username, update), lines 297-316
updateUser_run ==
  /\ opCount < MaxOps
  /\ pc[Solo] = "idle"
  /\ \E username \in {"root", "ann", "bob"}, update \in UserUpdates :
       LET parsed == updateUserSchema(update).value
           admin == adminRecord
           isAdmin == admin.status = "ok" /\ admin.value # NoDoc
                      /\ admin.value.username = username
           users == IF admin.status = "error" THEN admin
                    ELSE userSchemaArray(ensuredUsers[Real(USERS_FILE)].doc)
           index == IF users.status = "error" THEN 0
                    ELSE FindIndex({i \in 1..Len(users.value) :
                                      users.value[i].username = username})
           updated == IF isAdmin THEN applyUserUpdate(admin.value, parsed, clock)
                      ELSE IF users.status = "error" THEN users
                      ELSE IF index = 0 THEN Err("User not found")
                      ELSE applyUserUpdate(users.value[index], parsed, clock)
       IN  /\ call' = [call EXCEPT ![Solo] =
                 [op |-> "updateUser", path |-> USERS_FILE, username |-> username,
                  parsed |-> parsed]]
           /\ result' = [result EXCEPT ![Solo] =
                 IF updated.status = "error" THEN updated ELSE Ok("updated")]
           /\ fs' = IF isAdmin
                    THEN IF updated.status = "error" THEN fs
                         ELSE Put(fs, Real(ADMIN_FILE), Json(updated.value))
                    ELSE IF admin.status = "error" THEN fs
                    ELSE IF updated.status = "error" THEN ensuredUsers
                    ELSE Put(fs, Real(USERS_FILE),
                             Json([users.value EXCEPT ![index] = updated.value]))
  /\ opCount' = opCount + 1
  /\ UNCHANGED <<fds, lock, clock, pc, attempts, inCs, local, ran, released, nextId, seed, rateMap, handled>>

\* a new installation, or one that has stored a movie, categories, a series,
\* its admin and a user, at any reading of the clock
InitCalls ==
  /\ InitCallers
  /\ seed \in {<<>>, <<Json(SeedSeries)>>}
  /\ fs = IF seed = <<>> THEN <<>>
          ELSE [name \in {Real(MOVIES_FILE), Real(CATEGORIES_FILE), Real(seriesPath("echoes")),
                          Real(ADMIN_FILE), Real(USERS_FILE)} |->
                  CASE name = Real(MOVIES_FILE) -> Json(<<Movie1>>)
                    [] name = Real(CATEGORIES_FILE) -> Json(SeedCategories)
                    [] name = Real(ADMIN_FILE) -> Json(RootUser)
                    [] name = Real(USERS_FILE) -> Json(<<AnnUser>>)
                    [] OTHER -> seed[1]]
  /\ nextId = 2
  /\ clock \in 0..MaxTime

\* the calls of one request burst: the clock reading is the same for all
NextCalls ==
  \/ updateMovie_run
  \/ incrementMovieView_run
  \/ updateCategory_run
  \/ updateSeries_run
  \/ mergeEpisode_run
  \/ incrementSeriesView_run
  \/ updateUser_run

SpecCalls == InitCalls /\ [][NextCalls]_vars

-----------------------------------------------------------------------------
(* adminRateLimiter: src/unnamed/part_001 *)

WINDOW_MS == 60000
LIMIT == 10

\* the clock of the limiter's runs advances by StepMs, up to MaxNow
StepMs == 40000
MaxNow == 80000

Ips == {"10.0.0.1", "10.0.0.2"}
Admins == {"root"}

\* line 13: `${req.ip}:${req.currentUser?.username ?? 'guest'}`
\* (the admin routes run behind the session check: currentUser is set)
rateKey(ip, username) == <<ip, username>>

\* next(): the request goes on to the handler
next(username, now) ==
  /\ handled' = Put(handled, <<username, now>>,
                    IF <<username, now>> \in DOMAIN handled
                    THEN handled[<<username, now>>] + 1 ELSE 1)
  /\ result' = [result EXCEPT ![Solo] = Ok("next")]

\* res.status(429).json(...): lines 22-23
tooManyRequests ==
  /\ result' = [result EXCEPT ![Solo] = [status |-> "429", value |-> "Too many requests"]]
  /\ UNCHANGED handled

\* adminRateLimiter(req, res, next) for a request of `username` from `ip`:
\* lines 13-27
adminRateLimiter ==
  \E ip \in Ips, username \in Admins :
    LET key == rateKey(ip, username)
        now == clock
    IN  /\ call' = [call EXCEPT ![Solo] = [op |-> "adminRequest", path |-> "none",
                                           ip |-> ip, username |-> username]]
        /\ IF key \notin DOMAIN rateMap \/ rateMap[key].expiresAt < now
           THEN /\ rateMap' = Put(rateMap, key, [count |-> 1, expiresAt |-> now + WINDOW_MS])
                /\ next(username, now)
           ELSE IF rateMap[key].count >= LIMIT
           THEN /\ tooManyRequests
                /\ UNCHANGED rateMap
           ELSE /\ rateMap' = Put(rateMap, key, [rateMap[key] EXCEPT !.count = @ + 1])
                /\ next(username, now)
        /\ UNCHANGED <<fs, fds, lock, clock, pc, attempts, inCs, local, ran, released,
                       nextId, opCount, seed>>

\* time passes between two requests
Wait ==
  /\ clock < MaxNow
  /\ clock' = clock + StepMs
  /\ UNCHANGED <<fs, fds, lock, pc, call, attempts, inCs, local, result,
                 ran, released, nextId, opCount, seed, rateMap, handled>>

\* the process has just started: the map is empty
InitRate ==
  /\ InitLock

NextRate ==
  \/ adminRateLimiter
  \/ Wait

SpecRate == InitRate /\ [][NextRate]_vars

-----------------------------------------------------------------------------
(* Properties of withFileLock, checked under SpecLock *)

\* C1: no two critical sections (runs of the fn passed to withFileLock) for
\* the same path are in progress at once, in one process or in several
C1_MutualExclusion ==
  \A p, q \in Procs :
    (p # q /\ inCs[p] /\ inCs[q]) => call[p].path # call[q].path

\* a section runs while a caller of another process has tried the same path
\* and been refused, and a section on the other path runs beside it
C1_Witness ==
  \E p, q, r \in Procs :
    /\ Pid(p) # Pid(q)
    /\ inCs[p] /\ pc[q] = "lock" /\ attempts[q] >= 1 /\ call[q].path = call[p].path
    /\ inCs[r] /\ call[r].path # call[p].path

\* C5: when the fn of a withFileLock call has ended, returning or throwing,
\* the lock was released once, the caller no longer holds the path, and the
\* caller received the value or the error of fn
C5_ReleasedOnEveryExit ==
  \A p \in Procs :
    /\ released[p] <= ran[p]
    /\ (pc[p] = "done" /\ ran[p] = 1) =>
         /\ released[p] = 1
         /\ lock[call[p].path] # p
         /\ result[p] = IF call[p].fn = "return" THEN Ok(p) ELSE Err("fn threw")

\* a fn that threw has ended and another caller holds the same path after it
C5_Witness ==
  \E p, q \in Procs :
    /\ pc[p] = "done" /\ call[p].fn = "throw" /\ released[p] = 1
    /\ result[p] = Err("fn threw")
    /\ inCs[q] /\ call[q].path = call[p].path

\* C6: lockfile.lock makes at most 1 + retries attempts; a call that used
\* them all on a held path fails with the lock error, its fn never ran and
\* it wrote nothing
C6_LockTimeout ==
  \A p \in Procs :
    /\ attempts[p] <= retries + 1
    /\ (pc[p] = "lock" => attempts[p] <= retries)
    /\ result[p] = Err("ELOCKED") =>
         /\ pc[p] = "done"
         /\ attempts[p] = retries + 1
         /\ ran[p] = 0 /\ released[p] = 0 /\ ~inCs[p]
         /\ \A n \in DOMAIN fs : fs[n] # Json(<<p>>)

\* a call has timed out while another caller held its path
C6_Witness ==
  \E p, q \in Procs :
    /\ result[p] = Err("ELOCKED")
    /\ lock[call[p].path] = q

-----------------------------------------------------------------------------
(* Properties of writeJsonFile, checked under SpecWrite *)

\* C4: a reader of a path that writeJsonFile calls are writing sees the whole
\* content of one write or the whole earlier content, never an empty,
\* truncated or mixed document
C4_ReaderSeesWholeDocument ==
  \A p \in Procs :
    (call[p].op = "readFile" /\ result[p].status = "ok") =>
      /\ result[p].value.kind = "json"
      /\ \/ result[p].value.doc \in WriteDocs
         \/ seed = <<result[p].value>>

\* C26: when writeJsonFile has failed at one of its steps (writing the
\* temporary file, renaming it onto the target), the target path holds the
\* whole content it held before: what was stored at the start or what a
\* call that succeeded has written
C26_FailedWriteKeepsTarget ==
  \A p \in Procs :
    (call[p].op = "writeJsonFile" /\ result[p].status = "error") =>
      IF existsSync(Real(MOVIES_FILE))
      THEN \/ seed = <<fs[Real(MOVIES_FILE)]>>
           \/ \E q \in Procs \ {p} :
                /\ call[q].op = "writeJsonFile" /\ result[q].status = "ok"
                /\ fs[Real(MOVIES_FILE)] = Json(call[q].data)
      ELSE seed = <<>>

\* C30: two writeJsonFile calls that are in progress at the same time, in
\* one process or in two, use different temporary file paths
C30_TmpPathsDiffer ==
  \A p, q \in Procs :
    (p # q /\ pc[p] \in {"wwrite", "wrename"} /\ pc[q] \in {"wwrite", "wrename"}) =>
      local[p].wtmp # local[q].wtmp

-----------------------------------------------------------------------------
(* Properties of the movie operations, checked under SpecMovies *)

\* the call ended for a reason of its own, not of the storage layer
Settled(p) ==
  /\ pc[p] = "done"
  /\ result[p] \notin {Err("ELOCKED"), Err("ENOENT"), Err("SyntaxError"), Err("ZodError")}

\* a movie without the time stamp of its last change
Timeless(movies) ==
  [i \in 1..Len(movies) |-> [k \in DOMAIN movies[i] \ {"updatedAt"} |-> movies[i][k]]]

\* the document after call c has run alone on `doc`
Alone(doc, c) ==
  LET d == Decide(c, doc, 0) IN IF d.kind = "save" THEN d.next ELSE doc

SeedDoc == IF seed = <<>> THEN <<>> ELSE seed[1].doc

\* C2: when concurrent movie operations on a stored movies file have all
\* ended, the file holds what running them one at a time in some order gives
C2_Serializable ==
  (seed # <<>> /\ \A p \in Callers : Settled(p)) =>
    /\ existsSync(Real(MOVIES_FILE))
    /\ fs[Real(MOVIES_FILE)].kind = "json"
    /\ \E p, q \in Callers :
         /\ p # q
         /\ Timeless(fs[Real(MOVIES_FILE)].doc)
              = Timeless(Alone(Alone(SeedDoc, call[p]), call[q]))

\* C3: when N concurrent incrementMovieView calls for one stored movie have
\* all completed, its view count has grown by N
C3_NoIncrementLost ==
  ( /\ seed # <<>>
    /\ \A p \in Callers :
         /\ pc[p] = "done" /\ result[p] = Ok("incremented")
         /\ call[p].op = "incrementMovieView" /\ call[p].id = Movie1.id )
  => \E i \in 1..Len(fs[Real(MOVIES_FILE)].doc) :
       /\ fs[Real(MOVIES_FILE)].doc[i].id = Movie1.id
       /\ fs[Real(MOVIES_FILE)].doc[i].views = Movie1.views + Cardinality(Callers)

\* C17: after any sequence and interleaving of createMovie, updateMovie,
\* deleteMovie and incrementMovieView calls no two movies of the stored list
\* have the same slug, and a createMovie call that succeeded found no movie
\* with its slug in the list it read
C17_MovieSlugsUnique ==
  /\ (existsSync(Real(MOVIES_FILE)) /\ fs[Real(MOVIES_FILE)].kind = "json") =>
       \A i, j \in 1..Len(fs[Real(MOVIES_FILE)].doc) :
         i # j => fs[Real(MOVIES_FILE)].doc[i].slug # fs[Real(MOVIES_FILE)].doc[j].slug
  /\ \A p \in Callers :
       (call[p].op = "createMovie" /\ result[p] = Ok("created")) =>
         \A i \in 1..Len(local[p].snap) : local[p].snap[i].slug # call[p].movie.slug

\* the stored list of movies, <<>> where there is none to read
Movies ==
  IF existsSync(Real(MOVIES_FILE)) /\ fs[Real(MOVIES_FILE)].kind = "json"
  THEN fs[Real(MOVIES_FILE)].doc ELSE <<>>

\* caller p replaces the stored list, which is the list its call has read:
\* no other call has written in between, as in a sequence of calls
WritesOverRead(p) ==
  /\ pc[p] = "wrename" /\ pc'[p] # "wrename"
  /\ local[p].phase = "save"
  /\ local[p].snap = Movies

\* C22: across a sequence of createMovie, updateMovie and incrementMovieView
\* calls the stored view count of a movie is never negative and never
\* becomes smaller than it was
C22_ViewsMonotonic ==
  [][\A p \in Callers :
       (WritesOverRead(p) /\ call[p].op # "deleteMovie") =>
         \A i \in 1..Len(Movies), j \in 1..Len(Movies') :
           /\ Movies'[j].views >= 0
           /\ Movies'[j].id = Movies[i].id => Movies'[j].views >= Movies[i].views]_vars

\* C23: after every mutation of the movie list (createMovie, updateMovie,
\* deleteMovie, incrementMovieView) the stored list is in ascending order of
\* title
C23_MoviesSortedByTitle ==
  \A i, j \in 1..Len(Movies) : i < j => Rank(Movies[i].title) <= Rank(Movies[j].title)

-----------------------------------------------------------------------------
(* Properties of the series operations, checked under SpecSeries *)

\* the series stored for the slug of the model
Stored == fs[Real(seriesPath("echoes"))].doc

\* the series the last call read, NoDoc for none
Before == local[Solo].snap

Ascending(nums) == \A i, j \in 1..Len(nums) : i < j => nums[i] < nums[j]

\* the places of the episodes of a series: season index, episode index
Slots(series) ==
  UNION {{<<i, j>> : j \in 1..Len(series.seasons[i].episodes)} :
           i \in 1..Len(series.seasons)}

\* the (season number, episode number) pairs of a series
Pairs(series) ==
  {<<series.seasons[sl[1]].season, series.seasons[sl[1]].episodes[sl[2]].episode>> :
     sl \in Slots(series)}

\* the episodes of a series filed under season number s, episode number e
EpisodesAt(series, s, e) ==
  {series.seasons[sl[1]].episodes[sl[2]] :
     sl \in {x \in Slots(series) :
               /\ series.seasons[x[1]].season = s
               /\ series.seasons[x[1]].episodes[x[2]].episode = e}}

\* what a field-level overwrite of `stored` by `incoming` holds in field k
Overwritten(stored, incoming, k) ==
  IF k \notin DOMAIN incoming THEN stored[k]
  ELSE IF k = "title" THEN sanitize(incoming[k]) ELSE incoming[k]

\* C7: after any sequence of createOrMergeSeries, updateSeries, mergeEpisode
\* and incrementSeriesView calls, the season numbers of every stored series
\* are distinct and ascending, and so are the episode numbers of each season
C7_SeasonsAndEpisodesAscending ==
  \A n \in DOMAIN fs :
    fs[n].kind = "json" =>
      /\ Ascending([i \in 1..Len(fs[n].doc.seasons) |-> fs[n].doc.seasons[i].season])
      /\ \A i \in 1..Len(fs[n].doc.seasons) :
           Ascending([j \in 1..Len(fs[n].doc.seasons[i].episodes) |->
                        fs[n].doc.seasons[i].episodes[j].episode])

\* C8: when createOrMergeSeries is given an incoming episode whose season and
\* episode numbers exist in the stored series, the merge is accepted and the
\* merged episode holds the payload's value of each field supplied and the
\* stored value of each field left out
C8_PartialEpisodeMerged ==
  (call[Solo].op = "createOrMergeSeries" /\ Before # NoDoc) =>
    \A i \in 1..Len(call[Solo].payload.seasons) :
      \A j \in 1..Len(call[Solo].payload.seasons[i].episodes) :
        LET s == call[Solo].payload.seasons[i].season
            incoming == call[Solo].payload.seasons[i].episodes[j]
        IN  \A stored \in EpisodesAt(Before, s, incoming.episode) :
              /\ result[Solo].status = "ok"
              /\ \E merged \in EpisodesAt(Stored, s, incoming.episode) :
                   \A k \in EpisodeKeys \ {"lastUpdated"} :
                     merged[k] = Overwritten(stored, incoming, k)

\* C9: when mergeEpisode is called for a (season, episode) pair of the stored
\* series, the stored episode takes the fields of the payload, keeps every
\* other field, has lastUpdated stamped anew, and the numbers of seasons and
\* of episodes stay as they were
C9_MergeEpisodeOverwrites ==
  ( /\ call[Solo].op = "mergeEpisode" /\ Before # NoDoc
    /\ result[Solo] = Ok("merged")
    /\ EpisodesAt(Before, call[Solo].payload.season, call[Solo].payload.episode) # {} )
  => /\ Len(Stored.seasons) = Len(Before.seasons)
     /\ Cardinality(Slots(Stored)) = Cardinality(Slots(Before))
     /\ \A stored \in EpisodesAt(Before, call[Solo].payload.season,
                                 call[Solo].payload.episode) :
          \E merged \in EpisodesAt(Stored, call[Solo].payload.season,
                                   call[Solo].payload.episode) :
            \A k \in EpisodeKeys :
              merged[k] = IF k = "lastUpdated" THEN call[Solo].now
                          ELSE Overwritten(stored, call[Solo].payload, k)

\* C10: a createOrMergeSeries call on a stored series, and any mergeEpisode
\* call, leaves every (season number, episode number) pair of the stored
\* series in it
C10_NothingRemoved ==
  ( /\ call[Solo].op \in {"createOrMergeSeries", "mergeEpisode"}
    /\ Before # NoDoc
    /\ result[Solo].status = "ok" )
  => Pairs(Before) \subseteq Pairs(Stored)

\* the season numbers of a series
SeasonNumbers(series) == {series.seasons[i].season : i \in 1..Len(series.seasons)}

\* C12: createOrMergeSeries on a stored series and updateSeries leave the id
\* and the createdAt of the stored series as they were, whatever the payload
\* carries
C12_IdentityPreserved ==
  ( /\ call[Solo].op \in {"createOrMergeSeries", "updateSeries"}
    /\ Before # NoDoc
    /\ result[Solo].status = "ok" )
  => /\ Stored.id = Before.id
     /\ Stored.createdAt = Before.createdAt

\* C13: when createOrMergeSeries merges a payload none of whose season
\* numbers is in the stored series, every stored season comes out as it was,
\* every incoming season is in the result with its episodes, and the seasons
\* of the result are in ascending order of their numbers
C13_DisjointSeasonsAdded ==
  ( /\ call[Solo].op = "createOrMergeSeries"
    /\ Before # NoDoc
    /\ result[Solo].status = "ok"
    /\ \A i \in 1..Len(call[Solo].payload.seasons) :
         call[Solo].payload.seasons[i].season \notin SeasonNumbers(Before) )
  => /\ \A i \in 1..Len(Before.seasons) :
          \E j \in 1..Len(Stored.seasons) : Stored.seasons[j] = Before.seasons[i]
     /\ \A i \in 1..Len(call[Solo].payload.seasons) :
          \A n \in 1..Len(call[Solo].payload.seasons[i].episodes) :
            EpisodesAt(Stored, call[Solo].payload.seasons[i].season,
                       call[Solo].payload.seasons[i].episodes[n].episode) # {}
     /\ Ascending([j \in 1..Len(Stored.seasons) |-> Stored.seasons[j].season])

\* season numbers and, in each season, episode numbers are strictly ascending
Distinct(series) ==
  /\ Ascending([i \in 1..Len(series.seasons) |-> series.seasons[i].season])
  /\ \A i \in 1..Len(series.seasons) :
       Ascending([j \in 1..Len(series.seasons[i].episodes) |->
                    series.seasons[i].episodes[j].episode])

\* the step is a mergeEpisode call that follows a successful mergeEpisode
\* call with the same payload
SameMergeAgain ==
  /\ opCount' = opCount + 1
  /\ call[Solo].op = "mergeEpisode" /\ result[Solo] = Ok("merged")
  /\ call'[Solo].op = "mergeEpisode" /\ call'[Solo].payload = call[Solo].payload

\* C14: merging the same episode payload a second time changes nothing in
\* that episode but lastUpdated, adds no second episode with that number,
\* and leaves season numbers and episode numbers strictly ascending
C14_SecondMergeIdempotent ==
  [][ SameMergeAgain =>
        LET before == fs[Real(seriesPath("echoes"))].doc
            after == fs'[Real(seriesPath("echoes"))].doc
            s == call[Solo].payload.season
            e == call[Solo].payload.episode
        IN  /\ result'[Solo] = Ok("merged")
            /\ Cardinality(Slots(after)) = Cardinality(Slots(before))
            /\ \A was \in EpisodesAt(before, s, e) :
                 \E is \in EpisodesAt(after, s, e) :
                   \A k \in EpisodeKeys \ {"lastUpdated"} : is[k] = was[k]
            /\ Cardinality(EpisodesAt(after, s, e)) = Cardinality(EpisodesAt(before, s, e))
            /\ Distinct(after) ]_vars

\* the episodes of a series
Episodes(series) ==
  {series.seasons[sl[1]].episodes[sl[2]] : sl \in Slots(series)}

\* C15: when mergeEpisode is called for a (season, episode) pair that the
\* stored series does not hold, the inserted episode has the id generated in
\* the call, which no other episode has, 0 views and the time of the call
\* as lastUpdated, whatever id or views the payload carries; every other
\* episode is kept as it was
C15_InsertedEpisodeFresh ==
  ( /\ call[Solo].op = "mergeEpisode" /\ Before # NoDoc
    /\ result[Solo] = Ok("merged")
    /\ EpisodesAt(Before, call[Solo].payload.season, call[Solo].payload.episode) = {} )
  => /\ \E inserted \in EpisodesAt(Stored, call[Solo].payload.season,
                                   call[Solo].payload.episode) :
          /\ inserted.id = call[Solo].uuid
          /\ inserted.views = 0
          /\ inserted.lastUpdated = call[Solo].now
          /\ Cardinality({sl \in Slots(Stored) :
               Stored.seasons[sl[1]].episodes[sl[2]].id = inserted.id}) = 1
          /\ \A other \in Episodes(Before) : other.id # inserted.id
     /\ Episodes(Before) \subseteq Episodes(Stored)
     /\ Cardinality(Slots(Stored)) = Cardinality(Slots(Before)) + 1

\* a new episode was inserted, at a later time than the series was stored,
\* for a payload that carries an id some stored episode has and views
C15_Witness ==
  /\ call[Solo].op = "mergeEpisode" /\ Before # NoDoc
  /\ result[Solo] = Ok("merged")
  /\ EpisodesAt(Before, call[Solo].payload.season, call[Solo].payload.episode) = {}
  /\ {"id", "views"} \subseteq DOMAIN call[Solo].payload
  /\ call[Solo].payload.views > 0
  /\ \E other \in Episodes(Before) : other.id = call[Solo].payload.id
  /\ call[Solo].now > 0

\* C16: every operation that changes an episode of a stored series
\* (mergeEpisode inserting or updating, incrementSeriesView) sets the
\* updatedAt of the series to the time of the operation
C16_SeriesRestamped ==
  ( /\ call[Solo].op \in {"mergeEpisode", "incrementSeriesView"}
    /\ Before # NoDoc
    /\ result[Solo] \in {Ok("merged"), Ok("incremented")} )
  => Stored.updatedAt = call[Solo].now

-----------------------------------------------------------------------------
(* Properties of concurrent series calls, checked under SpecEpisodes *)

\* C11: when two concurrent mergeEpisode calls for different episode numbers
\* of one series have both completed, the stored series holds both episodes
\* with the values each call supplied
C11_BothEpisodesStored ==
  ( /\ \A p \in Callers :
         pc[p] = "done" /\ call[p].op = "mergeEpisode" /\ result[p] = Ok("merged")
    /\ \A p, q \in Callers : p # q => call[p].payload.episode # call[q].payload.episode )
  => \A p \in Callers :
       \E stored \in EpisodesAt(Stored, call[p].payload.season, call[p].payload.episode) :
         \A k \in DOMAIN call[p].payload :
           stored[k] = Overwritten(stored, call[p].payload, k)

-----------------------------------------------------------------------------
(* Properties of the user operations, checked under SpecUsers *)

\* the record of the admin file, the records of the users list file
StoredAdmin == IF existsSync(Real(ADMIN_FILE)) THEN <<fs[Real(ADMIN_FILE)].doc>> ELSE <<>>
StoredUsers == IF existsSync(Real(USERS_FILE)) THEN fs[Real(USERS_FILE)].doc ELSE <<>>

\* C18: after any sequence and interleaving of createUser and updateUser
\* calls no username is stored twice, in the admin file and the users list
\* taken together, and a createUser call that ran alone for a username that
\* was stored fails with the conflict error
C18_UsernamesUnique ==
  /\ LET all == StoredAdmin \o StoredUsers
     IN  \A i, j \in 1..Len(all) : i # j => all[i].username # all[j].username
  /\ \A p \in Callers :
       (/\ call[p].op = "createUser" /\ call[p].held /\ pc[p] = "done"
        /\ \A q \in Callers \ {p} : pc[q] = "idle") =>
         result[p] = Err("Username already exists")

\* C19: after any sequence of createUser and updateUser calls the record of
\* the admin file has role admin and no record of the users list has it
C19_AdminRoleInAdminFile ==
  /\ \A i \in 1..Len(StoredAdmin) : StoredAdmin[i].role = "admin"
  /\ \A i \in 1..Len(StoredUsers) : StoredUsers[i].role # "admin"

-----------------------------------------------------------------------------
(* Properties of appendHistory, checked under SpecHistory *)

\* the entries of the list with another contentId, in their order
Others(list, contentId) == SelectSeq(list, LAMBDA item : item.contentId # contentId)

\* C20: after any sequence of appendHistory calls for one user the stored
\* history has at most one entry for each contentId, the entry of the latest
\* call is its first element, and the entries with other contentIds are the
\* ones stored before the call, in the order they had
C20_HistoryLatestFirst ==
  /\ \A i, j \in 1..Len(history("ann")) :
       i # j => history("ann")[i].contentId # history("ann")[j].contentId
  /\ (call[Solo].op = "appendHistory" /\ result[Solo].status = "ok") =>
       /\ Len(history("ann")) >= 1
       /\ history("ann")[1] = call[Solo].entry
       /\ Others(history("ann"), call[Solo].entry.contentId)
            = Others(local[Solo].snap, call[Solo].entry.contentId)

\* a call has replaced the entry of its contentId, which was not the first,
\* in a history with two other entries
C20_Witness ==
  /\ call[Solo].op = "appendHistory"
  /\ result[Solo].status = "ok"
  /\ Len(local[Solo].snap) = 3
  /\ local[Solo].snap[3].contentId = call[Solo].entry.contentId
  /\ local[Solo].snap[3] # call[Solo].entry
  /\ Len(history("ann")) = 3

-----------------------------------------------------------------------------
(* Properties of concurrent appendHistory calls, checked under SpecAppend *)

\* C21: when two appendHistory calls for one user with different contentIds
\* ran concurrently and both completed, the stored history holds the entries
\* of both, also when the history file did not exist before them
C21_BothEntriesStored ==
  (/\ \A p \in Callers : pc[p] = "done" /\ result[p].status = "ok"
   /\ call["a"].entry.contentId # call["b"].entry.contentId) =>
    \A p \in Callers :
      \E i \in 1..Len(history("ann")) : history("ann")[i] = call[p].entry

-----------------------------------------------------------------------------
(* Properties of the category operations, checked under SpecCategories *)

Categories ==
  IF existsSync(Real(CATEGORIES_FILE)) THEN fs[Real(CATEGORIES_FILE)].doc ELSE <<>>

\* C24: after any sequence of createCategory, updateCategory, deleteCategory
\* and reorderCategories calls no two stored categories have the same slug
\* and no two have the same id
C24_CategorySlugsAndIdsUnique ==
  \A i, j \in 1..Len(Categories) :
    i # j => /\ Categories[i].slug # Categories[j].slug
             /\ Categories[i].id # Categories[j].id

-----------------------------------------------------------------------------
(* Properties of failing and idle calls, checked under SpecCalls *)

\* what is stored at each path; a list file that was never written holds no
\* record, as the empty list that listing it writes
Content ==
  [path \in {MOVIES_FILE, CATEGORIES_FILE, USERS_FILE, ADMIN_FILE, seriesPath("echoes")} |->
     IF existsSync(Real(path)) THEN fs[Real(path)] ELSE Json(<<>>)]

\* C25: when updateMovie, updateCategory, updateSeries, mergeEpisode or
\* updateUser fails (no record with the id, slug or username, or a resulting
\* record that the schema rejects) the call returns the error and what is
\* stored is what was stored before the call
C25_FailedUpdateChangesNothing ==
  [][(/\ opCount' = opCount + 1
      /\ call'[Solo].op \in {"updateMovie", "updateCategory", "updateSeries",
                             "mergeEpisode", "updateUser"}
      /\ result'[Solo].status = "error") => Content' = Content]_vars

\* an updateCategory call for a stored category has failed on the schema
C25_Witness ==
  /\ call[Solo].op = "updateCategory"
  /\ result[Solo] = Err("ZodError")
  /\ \E i \in 1..Len(local[Solo].snap) : local[Solo].snap[i].id = call[Solo].id

\* no stored movie has the id of call c
AbsentMovie(c) == \A i \in 1..Len(Movies) : Movies[i].id # c.id

\* the series file of call c is missing, or its series has no such season, or
\* the season no such episode
AbsentEpisode(c) ==
  LET name == Real(seriesPath(c.slug))
  IN  \/ ~existsSync(name)
      \/ /\ fs[name].kind = "json"
         /\ \A si \in 1..Len(fs[name].doc.seasons) :
              \/ fs[name].doc.seasons[si].season # c.season
              \/ \A ei \in 1..Len(fs[name].doc.seasons[si].episodes) :
                   fs[name].doc.seasons[si].episodes[ei].episode # c.episode

\* C27: incrementMovieView with an id that no stored movie has, and
\* incrementSeriesView with a slug, season or episode that does not exist,
\* return without error and leave the stored content as it was
C27_AbsentTargetIsNoOp ==
  [][(/\ opCount' = opCount + 1
      /\ \/ call'[Solo].op = "incrementMovieView" /\ AbsentMovie(call'[Solo])
         \/ call'[Solo].op = "incrementSeriesView" /\ AbsentEpisode(call'[Solo]))
     => /\ result'[Solo].status = "ok"
        /\ Content' = Content]_vars

\* a view was counted for an id that none of the stored movies has
C27_Witness ==
  /\ call[Solo].op = "incrementMovieView"
  /\ result[Solo] = Ok("absent")
  /\ Movies # <<>>
  /\ AbsentMovie(call[Solo])

-----------------------------------------------------------------------------
(* Properties of adminRateLimiter, checked under SpecRate *)

RECURSIVE Total(_, _)
\* the sum of f over the keys in S
Total(f, S) ==
  IF S = {} THEN 0
  ELSE LET k == CHOOSE x \in S : TRUE IN f[k] + Total(f, S \ {k})

\* the requests of `username` passed on to the handler from `from` to `to`
PassedOn(username, from, to) ==
  Total(handled, {k \in DOMAIN handled : k[1] = username /\ k[2] >= from /\ k[2] <= to})

\* C28: for each user and each period of 60 seconds, at most 10 of the user's
\* admin requests made in the period are passed on to the handler; a request
\* answered with 429 is not passed on
C28_AtMostLimitPerWindow ==
  \A k \in DOMAIN handled : PassedOn(k[1], k[2], k[2] + WINDOW_MS - 1) <= LIMIT

-----------------------------------------------------------------------------
(* Properties of the series files, checked under SpecSeries *)

\* the slugs that name a series file
SeriesFiles == {s \in {"echoes", "atlas", "Echoes", "Atlas", ""} : existsSync(Real(seriesPath(s)))}

\* C29: the file that createOrMergeSeries, updateSeries, mergeEpisode or
\* incrementSeriesView has written for slug s holds a series whose slug is s
C29_FileNamedBySlug ==
  /\ \A name \in DOMAIN fs : \E s \in SeriesFiles : name = Real(seriesPath(s))
  /\ \A s \in SeriesFiles :
       /\ fs[Real(seriesPath(s))].kind = "json"
       /\ fs[Real(seriesPath(s))].doc.slug = s

\* updateSeries was given another slug in its update and has written the file
C29_Witness ==
  /\ call[Solo].op = "updateSeries"
  /\ Has(call[Solo].update, "slug")
  /\ call[Solo].update.slug # call[Solo].slug
  /\ result[Solo] = Ok("updated")
  /\ existsSync(Real(seriesPath(call[Solo].slug)))

\* C32: across any sequence of createOrMergeSeries, updateSeries, mergeEpisode
\* and incrementSeriesView calls, the stored view count of an episode that
\* exists before and after a call is not smaller after it
C32_EpisodeViewsNeverDecrease ==
  [][existsSync(Real(seriesPath("echoes"))) =>
       \A pr \in Pairs(Stored) :
         \A old \in EpisodesAt(Stored, pr[1], pr[2]) :
           \A new \in EpisodesAt(Stored', pr[1], pr[2]) : new.views >= old.views]_vars

\* C34: in every stored series, each episode's season field is the season
\* number of the season that contains it
C34_EpisodeSeasonIsItsSeason ==
  existsSync(Real(seriesPath("echoes"))) =>
    \A sl \in Slots(Stored) :
      Stored.seasons[sl[1]].episodes[sl[2]].season = Stored.seasons[sl[1]].season

-----------------------------------------------------------------------------
(* Properties of createUser, checked under SpecUsers *)

\* what findUserByUsername(username) gives: the admin when it has the name,
\* else the first listed user that has it, else none (<<>>)
Found(username) ==
  LET accounts == StoredAdmin \o StoredUsers
      at == {i \in 1..Len(accounts) : accounts[i].username = username}
  IN  IF at = {} THEN <<>>
      ELSE <<accounts[CHOOSE i \in at : \A j \in at : i <= j]>>

\* C33: a createUser call that succeeds, made while no other call runs,
\* removes or replaces no account: every username found before it, the
\* admin's included, is found after it with the same id
C33_CreateUserKeepsAccounts ==
  [][\A p \in Callers :
       ( /\ call[p].op = "createUser"
         /\ pc[p] \in {"saveAdmin", "saveUsers"}
         /\ pc'[p] = "done"
         /\ result'[p].status = "ok"
         /\ \A q \in Callers \ {p} : pc[q] = "idle" )
       => \A username \in {"root", "ann", "bob"} :
            Found(username) # <<>> =>
              /\ Found(username)' # <<>>
              /\ Found(username)'[1].id = Found(username)[1].id]_vars

-----------------------------------------------------------------------------
(* Properties of the creation of a missing file, checked under SpecMovies *)

\* caller p is about to rename the default value onto the path: the
\* writeJsonFile of ensureJsonFile (fs.ts 34-36) or of readJsonFile's ENOENT
\* branch (17-20)
Initialising(p) ==
  /\ pc[p] = "wrename"
  /\ local[p].wdata = DefaultDoc(call[p])
  /\ \/ local[p].wret = "lock"
     \/ local[p].wret = "release" /\ local[p].phase = "load"

\* C31: once movies.json holds saved records, no caller that creates the
\* missing file with its default value replaces them
C31_DefaultNeverReplacesSaved ==
  [][\A p \in Callers :
       ( /\ Initialising(p)
         /\ pc'[p] # "wrename"
         /\ Movies # <<>> )
       => fs'[Real(MOVIES_FILE)] = fs[Real(MOVIES_FILE)]]_vars

=============================================================================
